---- MODULE Spec2Model ----
(***************************************************************************)
(* Model of the HQM server core: the Russian-mode rules state machine      *)
(* (hqm_russian.rs), the world object slots (hqm_game.rs) and the bit      *)
(* codec (hqm_parse.rs).                                                   *)
(***************************************************************************)
EXTENDS Integers, Sequences, FiniteSets, Bags, TLC

VARIABLES
    attempts,      \* HQMRussianBehaviour.attempts (configured)
    team_max,      \* HQMRussianBehaviour.team_max (configured)
    status,        \* HQMRussianBehaviour.status
    game,          \* HQMServer.game (scores, clocks, world objects, message log)
    players,       \* HQMServer.players: player slot -> record or NoPlayer
    pc,            \* position of the tick driver / of after_tick's event loop
    local,         \* after_tick's locals while its event loop runs
    elapsed,       \* ticks already spent in the running countdown (history)
    last,          \* the step taken last (history)
    wr,            \* an HQMMessageWriter: buf, pos, bit_pos
    rd,            \* an HQMMessageReader over the writer's buffer: pos, bit_pos
    written,       \* the fields written and not read back yet (history)
    result         \* the outcome of the last read (history)

rulesVars == <<attempts, team_max, status, game, players, local, elapsed, last>>
codecVars == <<wr, rd, written, result>>
vars == <<attempts, team_max, status, game, players, pc, local, elapsed, last,
          wr, rd, written, result>>

----------------------------------------------------------------------------
\* Bounds of the model

\* the number of attempts per team the behaviour is configured with
ConfiguredAttempts == 1
\* the highest score a team may reach before further goals are cut off
MaxScore == ConfiguredAttempts
\* the highest round number before further round increments are cut off
MaxRound == ConfiguredAttempts
\* the player slots of the server
PlayerIds == {0, 1}

\* check_ending is examined for up to this many configured attempts, goals per
\* team and rounds
MaxAttempts == 5
MaxGoals == 5
MaxRounds == 5

\* the bytes of the buffer a message is written to
BufLen == 8
\* the fields written to one message
MaxWrites == 2

----------------------------------------------------------------------------
\* Program constants

NumObjectSlots == 32
PauseTime == 1000
AttemptTime == 2000
GoalBreak == 300
GameOverBreak == 500
NewGameTime == 30000
SwitchTime == 500
RinkWidth == 30
RinkLength == 61
KeyJoinRed == 4
KeyJoinBlue == 8
KeySpectate == 32
WordBits == 32
ByteBits == 8

Teams == {"Red", "Blue"}

\* HQMTeam::get_other_team
get_other_team(team) == IF team = "Red" THEN "Blue" ELSE "Red"

\* u32::saturating_sub
saturating_sub(a, b) == IF a >= b THEN a - b ELSE 0

Max(a, b) == IF a >= b THEN a ELSE b
Min(a, b) == IF a <= b THEN a ELSE b

----------------------------------------------------------------------------
\* HQMRussianStatus

StatusPause == [tag |-> "Pause"]
StatusGameOver == [tag |-> "GameOver"]
StatusGame(in_zone, round, goal_scored) ==
    [tag |-> "Game", in_zone |-> in_zone, round |-> round, goal_scored |-> goal_scored]

----------------------------------------------------------------------------
\* World object slots (coordinates are kept in half metres: 0.5 m = 1)

ObjNone == [kind |-> "None"]
ObjPlayer(i, pos, connected_player_index, team) ==
    [kind |-> "Player", index |-> i, pos |-> pos,
     connected_player_index |-> connected_player_index, team |-> team]
ObjPuck(i, pos) == [kind |-> "Puck", index |-> i, pos |-> pos]

Slots == 0 .. (NumObjectSlots - 1)

NoSlot == -1

\* a search that returns the highest empty slot
find_last_empty_object_slot(objects) ==
    IF \E i \in Slots : objects[i].kind = "None"
    THEN CHOOSE i \in Slots :
            /\ objects[i].kind = "None"
            /\ \A j \in Slots : objects[j].kind = "None" => i >= j
    ELSE NoSlot

\* HQMGameWorld::find_empty_object_slot: the lowest empty slot, or NoSlot
find_empty_object_slot(objects) ==
    IF \E i \in Slots : objects[i].kind = "None"
    THEN CHOOSE i \in Slots :
            /\ objects[i].kind = "None"
            /\ \A j \in Slots : objects[j].kind = "None" => i <= j
    ELSE NoSlot

\* a create_puck_object that takes the last slot when none is empty
create_puck_object_overwrite(objects, pos) ==
    LET i == find_empty_object_slot(objects)
    IN  IF i # NoSlot THEN [objects EXCEPT ![i] = ObjPuck(i, pos)]
        ELSE [objects EXCEPT ![NumObjectSlots - 1] = ObjPuck(NumObjectSlots - 1, pos)]

\* HQMGameWorld::create_puck_object (the new slot array)
create_puck_object(objects, pos) ==
    LET i == find_empty_object_slot(objects)
    IN  IF i # NoSlot THEN [objects EXCEPT ![i] = ObjPuck(i, pos)] ELSE objects

\* HQMGameWorld::create_player_object (the new slot array)
create_player_object(objects, pos, connected_player_index, team) ==
    LET i == find_empty_object_slot(objects)
    IN  IF i # NoSlot
        THEN [objects EXCEPT ![i] = ObjPlayer(i, pos, connected_player_index, team)]
        ELSE objects

\* HQMGameWorld::clear_pucks: every puck slot becomes empty
clear_pucks(objects) ==
    [i \in Slots |-> IF objects[i].kind = "Puck" THEN ObjNone ELSE objects[i]]

\* objects.has_skater(player_index)
has_skater(objects, p) ==
    \E i \in Slots : objects[i].kind = "Player" /\ objects[i].connected_player_index = p

\* the slot of the skater of player p (get_skater_object_for_player)
skater_slot(objects, p) ==
    CHOOSE i \in Slots : objects[i].kind = "Player" /\ objects[i].connected_player_index = p

\* the number of skaters of a team (the loops over get_skater_iter)
player_count(objects, team) ==
    Cardinality({i \in Slots : objects[i].kind = "Player" /\ objects[i].team = team})

\* HQMServer::move_to_spectator: the player's skater is removed
move_to_spectator(objects, p) ==
    [i \in Slots |->
        IF objects[i].kind = "Player" /\ objects[i].connected_player_index = p
        THEN ObjNone ELSE objects[i]]

\* HQMServer::move_to_team: the player's skater is put on the team at pos; a
\* player without a skater gets a new one in the lowest empty slot
move_to_team(objects, p, team, pos) ==
    IF has_skater(objects, p)
    THEN LET i == skater_slot(objects, p)
         IN  [objects EXCEPT ![i] = ObjPlayer(i, pos, p, team)]
    ELSE create_player_object(objects, pos, p, team)

----------------------------------------------------------------------------
\* HQMGame

GoalMessage(team) == [type |-> "Goal", team |-> team]

\* HQMGame::new
HQMGameNew ==
    [red_score |-> 0, blue_score |-> 0, period |-> 0, time |-> NewGameTime,
     time_break |-> 0, game_over |-> FALSE, is_intermission_goal |-> FALSE,
     objects |-> [i \in Slots |-> ObjNone],
     global_messages |-> EmptyBag]

\* HQMServer::add_goal_message: one Goal message is appended to the log
add_goal_message(g, team) ==
    [g EXCEPT !.global_messages = @ (+) SetToBag({GoalMessage(team)})]

----------------------------------------------------------------------------
\* HQMRussianBehaviour: the rule operations. b = [status, game] is the part
\* of the behaviour and of the server they read and write.

PuckPos(team) == <<RinkWidth, 1, IF team = "Red" THEN 110 ELSE 12>>

\* a fix_status that counts a round for either team
fix_status_round_for_both(b, team) ==
    CASE b.status.tag = "Pause" ->
            [b EXCEPT !.status = StatusGame(team, 0, FALSE)]
      [] b.status.tag = "Game" ->
            IF b.status.in_zone # team
            THEN [b EXCEPT !.game.time = AttemptTime,
                           !.status.in_zone = team,
                           !.status.round = @ + 1]
            ELSE b
      [] OTHER -> b

\* HQMRussianBehaviour::fix_status (the chat texts are not kept)
fix_status(b, team) ==
    CASE b.status.tag = "Pause" ->
            [b EXCEPT !.status = StatusGame(team, 0, FALSE)]
      [] b.status.tag = "Game" ->
            IF b.status.in_zone # team
            THEN [b EXCEPT !.game.time = AttemptTime,
                           !.status.in_zone = team,
                           !.status.round = IF team = "Red" THEN @ + 1 ELSE @]
            ELSE b
      [] OTHER -> b

\* HQMRussianBehaviour::place_puck_for_team
place_puck_for_team(b, team) ==
    fix_status(
        [b EXCEPT !.game.objects = create_puck_object(clear_pucks(@), PuckPos(team))],
        team)

\* check_ending ending the game as soon as the margin reaches the attempts left
check_ending_at_reach(b) ==
    IF b.status.tag = "Game"
    THEN LET red_attempts_taken ==
                 b.status.round + (IF b.status.in_zone = "Blue" THEN 1 ELSE 0)
             blue_attempts_taken == b.status.round
             quota == Max(attempts, red_attempts_taken)
             game_over ==
                 IF b.game.red_score >= b.game.blue_score
                 THEN quota - blue_attempts_taken <= b.game.red_score - b.game.blue_score
                 ELSE quota - red_attempts_taken <= b.game.blue_score - b.game.red_score
         IN  IF game_over
             THEN [b EXCEPT !.status = StatusGameOver,
                            !.game.game_over = TRUE,
                            !.game.time_break = GameOverBreak]
             ELSE b
    ELSE b

\* HQMRussianBehaviour::check_ending
check_ending(b) ==
    IF b.status.tag = "Game"
    THEN LET red_attempts_taken ==
                 b.status.round + (IF b.status.in_zone = "Blue" THEN 1 ELSE 0)
             blue_attempts_taken == b.status.round
             quota == Max(attempts, red_attempts_taken)
             remaining_red_attempts == quota - red_attempts_taken
             remaining_blue_attempts == quota - blue_attempts_taken
             game_over ==
                 IF b.game.red_score >= b.game.blue_score
                 THEN remaining_blue_attempts < b.game.red_score - b.game.blue_score
                 ELSE remaining_red_attempts < b.game.blue_score - b.game.red_score
         IN  IF game_over
             THEN [b EXCEPT !.status = StatusGameOver,
                            !.game.game_over = TRUE,
                            !.game.time_break = GameOverBreak]
             ELSE b
    ELSE b

\* the ids in S in increasing order
RECURSIVE SortedSeq(_)
SortedSeq(S) ==
    IF S = {} THEN <<>>
    ELSE LET m == CHOOSE x \in S : \A y \in S : x <= y
         IN  <<m>> \o SortedSeq(S \ {m})

\* loops of init that give every player of the team a new skater
RECURSIVE line_up_create(_, _, _, _)
line_up_create(objects, ps, team, k) ==
    IF ps = <<>> THEN objects
    ELSE LET z == IF team = "Red" THEN RinkLength + 2 * (12 + k)
                  ELSE RinkLength - 2 * (12 + k)
         IN  line_up_create(create_player_object(objects, <<1, 4, z>>, Head(ps), team),
                            Tail(ps), team, k + 1)

\* the loops of init that line the players of a team up: the k-th player of
\* the team (in player order) goes to z = length/2 +- (12 + k)
RECURSIVE line_up(_, _, _, _)
line_up(objects, ps, team, k) ==
    IF ps = <<>> THEN objects
    ELSE LET z == IF team = "Red" THEN RinkLength + 2 * (12 + k)
                  ELSE RinkLength - 2 * (12 + k)
         IN  line_up(move_to_team(objects, Head(ps), team, <<1, 4, z>>),
                     Tail(ps), team, k + 1)

\* the players of a team, as init collects them after the puck is placed
team_players(objects, team) ==
    SortedSeq({p \in DOMAIN players :
                 /\ players[p].connected
                 /\ has_skater(objects, p)
                 /\ objects[skater_slot(objects, p)].team = team})

\* an init that places the first puck for Blue
init_blue_first(b) ==
    LET b1 == [b EXCEPT !.game.period = 1,
                        !.game.time = AttemptTime,
                        !.game.objects = clear_pucks(@)]
        b2 == place_puck_for_team(b1, "Blue")
        red_players == team_players(b2.game.objects, "Red")
        blue_players == team_players(b2.game.objects, "Blue")
        o1 == line_up(b2.game.objects, red_players, "Red", 0)
        o2 == line_up(o1, blue_players, "Blue", 0)
    IN  [b2 EXCEPT !.game.objects = o2]

\* HQMRussianBehaviour::init
init(b) ==
    LET b1 == [b EXCEPT !.game.period = 1,
                        !.game.time = AttemptTime,
                        !.game.objects = clear_pucks(@)]
        b2 == place_puck_for_team(b1, "Red")
        red_players == team_players(b2.game.objects, "Red")
        blue_players == team_players(b2.game.objects, "Blue")
        o1 == line_up(b2.game.objects, red_players, "Red", 0)
        o2 == line_up(o1, blue_players, "Blue", 0)
    IN  [b2 EXCEPT !.game.objects = o2]

\* a create_game that keeps the clock of HQMGame::new
create_game_no_clock == HQMGameNew

\* HQMRussianBehaviour::create_game (the game it returns)
create_game == [HQMGameNew EXCEPT !.time = PauseTime]

\* HQMServer::new_game with the status create_game leaves: the game value is
\* replaced
new_game(b) == [b EXCEPT !.status = StatusPause, !.game = create_game]

----------------------------------------------------------------------------
\* HQMServer.players and before_tick

NoPlayer == [connected |-> FALSE]
Player(timer) == [connected |-> TRUE, team_switch_timer |-> timer]

\* HQMPlayerInput::join_red / join_blue / spectate on the key bitmask
join_red(keys) == (keys \div KeyJoinRed) % 2 = 1
join_blue(keys) == (keys \div KeyJoinBlue) % 2 = 1
spectate(keys) == (keys \div KeySpectate) % 2 = 1

\* move_to_spectator for every player of a list
RECURSIVE spectate_all(_, _)
spectate_all(objects, ps) ==
    IF ps = <<>> THEN objects
    ELSE spectate_all(move_to_spectator(objects, Head(ps)), Tail(ps))

\* move_to_team for every player of a list, all to the same place
RECURSIVE join_all(_, _, _)
join_all(objects, ps, team) ==
    IF ps = <<>> THEN objects
    ELSE LET z == IF team = "Red" THEN RinkLength + 24 ELSE RinkLength - 24
         IN  join_all(move_to_team(objects, Head(ps), team, <<1, 4, z>>), Tail(ps), team)

\* update_players lowering the timer on the tick of the removal as well
join_requests_decrement_removed(objects, pl, keys) ==
    LET conn == {p \in DOMAIN pl : pl[p].connected}
        spectating == {p \in conn : has_skater(objects, p) /\ spectate(keys[p])}
        timer == [p \in DOMAIN pl |->
                    IF ~pl[p].connected THEN 0
                    ELSE IF p \in spectating THEN SwitchTime - 1
                    ELSE saturating_sub(pl[p].team_switch_timer, 1)]
        may_join == {p \in conn : ~has_skater(objects, p) /\ timer[p] = 0}
        joining_red == SortedSeq({p \in may_join : join_red(keys[p])})
        joining_blue ==
            SortedSeq({p \in may_join : ~join_red(keys[p]) /\ join_blue(keys[p])})
        o1 == spectate_all(objects, SortedSeq(spectating))
        red_player_count == player_count(o1, "Red")
        blue_player_count == player_count(o1, "Blue")
        new_red_player_count == Min(red_player_count + Len(joining_red), team_max)
        new_blue_player_count == Min(blue_player_count + Len(joining_blue), team_max)
    IN  [timer |-> timer, spectating |-> SortedSeq(spectating),
         joining_red |-> joining_red, joining_blue |-> joining_blue,
         objects |-> o1,
         num_joining_red |-> saturating_sub(new_red_player_count, red_player_count),
         num_joining_blue |-> saturating_sub(new_blue_player_count, blue_player_count)]

\* update_players without the cap of team_max on the new team sizes
join_requests_no_max(objects, pl, keys) ==
    LET conn == {p \in DOMAIN pl : pl[p].connected}
        spectating == {p \in conn : has_skater(objects, p) /\ spectate(keys[p])}
        timer == [p \in DOMAIN pl |->
                    IF ~pl[p].connected THEN 0
                    ELSE IF p \in spectating THEN SwitchTime
                    ELSE saturating_sub(pl[p].team_switch_timer, 1)]
        may_join == {p \in conn : ~has_skater(objects, p) /\ timer[p] = 0}
        joining_red == SortedSeq({p \in may_join : join_red(keys[p])})
        joining_blue ==
            SortedSeq({p \in may_join : ~join_red(keys[p]) /\ join_blue(keys[p])})
        o1 == spectate_all(objects, SortedSeq(spectating))
    IN  [timer |-> timer, spectating |-> SortedSeq(spectating),
         joining_red |-> joining_red, joining_blue |-> joining_blue,
         objects |-> o1,
         num_joining_red |-> Len(joining_red),
         num_joining_blue |-> Len(joining_blue)]

\* HQMRussianBehaviour::update_players up to the two join loops: the timers,
\* the three lists, the slot array after the spectate moves and the lengths
\* of the two slices; keys[p] is the key bitmask of player p's current input
join_requests(objects, pl, keys) ==
    LET conn == {p \in DOMAIN pl : pl[p].connected}
        spectating == {p \in conn : has_skater(objects, p) /\ spectate(keys[p])}
        timer == [p \in DOMAIN pl |->
                    IF ~pl[p].connected THEN 0
                    ELSE IF p \in spectating THEN SwitchTime
                    ELSE saturating_sub(pl[p].team_switch_timer, 1)]
        may_join == {p \in conn : ~has_skater(objects, p) /\ timer[p] = 0}
        joining_red == SortedSeq({p \in may_join : join_red(keys[p])})
        joining_blue ==
            SortedSeq({p \in may_join : ~join_red(keys[p]) /\ join_blue(keys[p])})
        o1 == spectate_all(objects, SortedSeq(spectating))
        red_player_count == player_count(o1, "Red")
        blue_player_count == player_count(o1, "Blue")
        new_red_player_count == Min(red_player_count + Len(joining_red), team_max)
        new_blue_player_count == Min(blue_player_count + Len(joining_blue), team_max)
    IN  [timer |-> timer, spectating |-> SortedSeq(spectating),
         joining_red |-> joining_red, joining_blue |-> joining_blue,
         objects |-> o1,
         num_joining_red |-> saturating_sub(new_red_player_count, red_player_count),
         num_joining_blue |-> saturating_sub(new_blue_player_count, blue_player_count)]

\* the slice &list[0..n] of a join loop; taking it panics when n is above the
\* length of the list
slice_in_bounds(list, n) == n <= Len(list)

\* HQMRussianBehaviour::update_players: [objects, players] after before_tick
update_players(objects, pl, keys) ==
    LET j == join_requests(objects, pl, keys)
        o2 == join_all(j.objects, SubSeq(j.joining_red, 1, j.num_joining_red), "Red")
        o3 == join_all(o2, SubSeq(j.joining_blue, 1, j.num_joining_blue), "Blue")
    IN  [objects |-> o3,
         players |-> [p \in DOMAIN pl |->
                         IF pl[p].connected THEN Player(j.timer[p]) ELSE pl[p]]]

----------------------------------------------------------------------------
\* The state machine

Behaviour == [status |-> status, game |-> game]

both_teams_present(objects) ==
    player_count(objects, "Red") > 0 /\ player_count(objects, "Blue") > 0

\* no codec at work
CodecIdle ==
    /\ wr = [buf |-> <<>>, pos |-> 0, bit_pos |-> 0]
    /\ rd = [pos |-> 0, bit_pos |-> 0]
    /\ written = <<>>
    /\ result = [type |-> "none"]

\* HQMRussianBehaviour::new, and the server holding the game of create_game
Init ==
    /\ CodecIdle
    /\ attempts = ConfiguredAttempts
    /\ team_max = 1
    /\ status = StatusPause
    /\ game = create_game
    /\ players = [p \in PlayerIds |-> Player(0)]
    /\ pc = "before_tick"
    /\ local = [in_zone |-> "Red", round |-> 0]
    /\ elapsed = 0
    /\ last = [type |-> "new"]

\* the key bitmasks a tick may see: nobody presses a key, or every player
\* asks for a team (even slots Red, odd slots Blue)
RulesInputs ==
    { [p \in PlayerIds |-> 0],
      [p \in PlayerIds |-> IF p % 2 = 0 THEN KeyJoinRed ELSE KeyJoinBlue] }

\* before_tick
BeforeTick(inputs) ==
    /\ pc = "before_tick"
    /\ \E keys \in inputs :
          LET r == update_players(game.objects, players, keys)
          IN  /\ game' = [game EXCEPT !.objects = r.objects]
              /\ players' = r.players
    /\ pc' = "after_tick"
    /\ last' = [type |-> "before_tick"]
    /\ UNCHANGED <<attempts, team_max, status, local, elapsed>>
    /\ UNCHANGED codecVars

\* a Pause countdown that is not restarted when a team has no skater
pause_tick_no_restart(b) ==
    LET b1 == [b EXCEPT !.game.time = saturating_sub(@, 1)]
    IN  IF both_teams_present(b.game.objects)
        THEN IF b1.game.time = 0 THEN init(b1) ELSE b1
        ELSE b

\* after_tick, status Pause
pause_tick(b) ==
    LET b1 == [b EXCEPT !.game.time = saturating_sub(@, 1)]
    IN  IF both_teams_present(b.game.objects)
        THEN IF b1.game.time = 0 THEN init(b1) ELSE b1
        ELSE [b EXCEPT !.game.time = PauseTime]

AfterTickPause ==
    /\ pc = "after_tick"
    /\ status.tag = "Pause"
    /\ LET r == pause_tick(Behaviour)
       IN  /\ status' = r.status
           /\ game' = r.game
           /\ elapsed' = IF both_teams_present(game.objects) /\ r.status.tag = "Pause"
                         THEN elapsed + 1 ELSE 0
           /\ last' = IF r.status.tag # "Pause" THEN [type |-> "init"]
                       ELSE IF both_teams_present(game.objects) THEN [type |-> "pause"]
                       ELSE [type |-> "restart", from |-> game.time]
    /\ pc' = "before_tick"
    /\ UNCHANGED <<attempts, team_max, players, local>>
    /\ UNCHANGED codecVars

\* after_tick, status GameOver
AfterTickGameOver ==
    /\ pc = "after_tick"
    /\ status.tag = "GameOver"
    /\ LET b == Behaviour
           b1 == [b EXCEPT !.game.time_break = saturating_sub(@, 1)]
           r == IF b1.game.time_break = 0 THEN new_game(b1) ELSE b1
       IN  /\ status' = r.status
           /\ game' = r.game
           /\ elapsed' = IF r.status.tag = "GameOver" THEN elapsed + 1 ELSE 0
           /\ last' = [type |-> IF r.status.tag = "GameOver" THEN "game_over" ELSE "new_game"]
    /\ pc' = "before_tick"
    /\ UNCHANGED <<attempts, team_max, players, local>>
    /\ UNCHANGED codecVars

\* a goal break that hands the puck to the other team
goal_break_other_team(b) ==
    LET b1 == [b EXCEPT !.game.time_break = saturating_sub(@, 1)]
    IN  IF b1.game.time_break = 0
        THEN LET b2 == place_puck_for_team(
                          [b1 EXCEPT !.game.is_intermission_goal = FALSE],
                          get_other_team(b.status.in_zone))
             IN  [b2 EXCEPT !.game.time = AttemptTime,
                            !.status.goal_scored = FALSE]
        ELSE b1

\* after_tick, status Game with goal_scored: the goal break
goal_break(b) ==
    LET b1 == [b EXCEPT !.game.time_break = saturating_sub(@, 1)]
    IN  IF b1.game.time_break = 0
        THEN LET b2 == place_puck_for_team(
                          [b1 EXCEPT !.game.is_intermission_goal = FALSE],
                          b.status.in_zone)
             IN  [b2 EXCEPT !.game.time = AttemptTime,
                            !.status = StatusGame(b.status.in_zone, b.status.round, FALSE)]
        ELSE b1

AfterTickGoalBreak ==
    /\ pc = "after_tick"
    /\ status.tag = "Game"
    /\ status.goal_scored
    /\ LET r == goal_break(Behaviour)
       IN  /\ status' = r.status
           /\ game' = r.game
           /\ elapsed' = IF r.status.goal_scored THEN elapsed + 1 ELSE 0
           /\ last' = [type |-> IF r.status.goal_scored THEN "goal_break" ELSE "goal_break_end"]
    /\ pc' = "before_tick"
    /\ UNCHANGED <<attempts, team_max, players, local>>
    /\ UNCHANGED codecVars

\* after_tick, status Game without goal_scored: in_zone and round are copied
\* out of the status before the event loop starts
AfterTickGame ==
    /\ pc = "after_tick"
    /\ status.tag = "Game"
    /\ ~status.goal_scored
    /\ local' = [in_zone |-> status.in_zone, round |-> status.round]
    /\ pc' = "events"
    /\ last' = [type |-> "events"]
    /\ UNCHANGED <<attempts, team_max, status, game, players, elapsed>>
    /\ UNCHANGED codecVars

\* the simulation events
PuckEnteredNet(team) == [type |-> "PuckEnteredNet", team |-> team]
PuckTouch(player) == [type |-> "PuckTouch", player |-> player]
PuckEnteredOffensiveZone(team) == [type |-> "PuckEnteredOffensiveZone", team |-> team]
PuckLeftOffensiveZone == [type |-> "PuckLeftOffensiveZone"]
PuckPassedGoalLine == [type |-> "PuckPassedGoalLine"]
PuckTouchedNet == [type |-> "PuckTouchedNet"]

\* the values of the attempt clock at which the simulation delivers events:
\* the first tick of an attempt, a tick in the middle, and the last tick
EventTimes == {AttemptTime, AttemptTime \div 2, 1}

\* the object indices a PuckTouch may name
TouchSlots == 0 .. Cardinality(PlayerIds)

Events ==
    {PuckEnteredNet(t) : t \in Teams} \cup {PuckTouch(i) : i \in TouchSlots}
    \cup {PuckEnteredOffensiveZone(t) : t \in Teams}
    \cup {PuckLeftOffensiveZone, PuckPassedGoalLine, PuckTouchedNet}

\* a goal that is counted for the other team
puck_entered_net_wrong_team(b, loc, team) ==
    LET b1 == IF team = "Red"
              THEN [b EXCEPT !.game.blue_score = @ + 1]
              ELSE [b EXCEPT !.game.red_score = @ + 1]
        b2 == [b1 EXCEPT !.status = StatusGame(loc.in_zone, loc.round, TRUE),
                         !.game.time_break = GoalBreak,
                         !.game.is_intermission_goal = TRUE]
    IN  check_ending([b2 EXCEPT !.game = add_goal_message(@, team)])

\* the PuckEnteredNet arm of the event loop; loc holds the in_zone and round
\* copied when the loop started
puck_entered_net(b, loc, team) ==
    LET b1 == IF team = "Red"
              THEN [b EXCEPT !.game.red_score = @ + 1]
              ELSE [b EXCEPT !.game.blue_score = @ + 1]
        b2 == [b1 EXCEPT !.status = StatusGame(loc.in_zone, loc.round, TRUE),
                         !.game.time_break = GoalBreak,
                         !.game.is_intermission_goal = TRUE]
    IN  check_ending([b2 EXCEPT !.game = add_goal_message(@, team)])

\* one iteration of the event loop of after_tick
handle_event(b, loc, event) ==
    CASE event.type = "PuckEnteredNet" -> puck_entered_net(b, loc, event.team)
      [] event.type = "PuckTouch" ->
            IF b.game.objects[event.player].kind = "Player"
            THEN fix_status(b, b.game.objects[event.player].team)
            ELSE b
      [] event.type = "PuckEnteredOffensiveZone" ->
            fix_status(b, get_other_team(event.team))
      [] event.type = "PuckLeftOffensiveZone" -> check_ending(b)
      [] event.type = "PuckPassedGoalLine" -> check_ending(b)
      [] OTHER -> b

\* the cut-off of scores and rounds
WithinBounds(b) ==
    /\ b.game.red_score <= MaxScore
    /\ b.game.blue_score <= MaxScore
    /\ b.status.tag = "Game" => b.status.round <= MaxRound

HandleEvent ==
    /\ pc = "events"
    /\ game.time \in EventTimes
    /\ \E event \in Events :
          LET r == handle_event(Behaviour, local, event)
          IN  /\ WithinBounds(r)
              /\ status' = r.status
              /\ game' = r.game
              /\ last' = event
    /\ UNCHANGED <<attempts, team_max, players, pc, local, elapsed>>
    /\ UNCHANGED codecVars

\* an attempt clock that places the puck before it evaluates check_ending
time_step_place_first(b) ==
    LET b1 == [b EXCEPT !.game.time = saturating_sub(@, 1)]
    IN  IF b1.game.time = 0
        THEN IF b1.status.tag = "Game"
             THEN check_ending(place_puck_for_team(b1, get_other_team(b1.status.in_zone)))
             ELSE b1
        ELSE b1

\* the end of after_tick in status Game: the attempt clock
time_step(b) ==
    LET b1 == [b EXCEPT !.game.time = saturating_sub(@, 1)]
    IN  IF b1.game.time = 0
        THEN LET b2 == check_ending(b1)
             IN  IF b2.status.tag = "Game"
                 THEN place_puck_for_team(b2, get_other_team(b2.status.in_zone))
                 ELSE b2
        ELSE b1

AfterTickGameEnd ==
    /\ pc = "events"
    /\ LET r == time_step(Behaviour)
       IN  /\ WithinBounds(r)
           /\ status' = r.status
           /\ game' = r.game
           /\ last' = [type |-> IF game.time <= 1 THEN "expiry" ELSE "clock"]
    /\ pc' = "before_tick"
    /\ UNCHANGED <<attempts, team_max, players, local, elapsed>>
    /\ UNCHANGED codecVars

AfterTick ==
    \/ AfterTickPause
    \/ AfterTickGameOver
    \/ AfterTickGoalBreak
    \/ AfterTickGame
    \/ HandleEvent
    \/ AfterTickGameEnd

Next ==
    \/ BeforeTick(RulesInputs)
    \/ AfterTick

Spec == Init /\ [][Next]_vars

----------------------------------------------------------------------------
\* The lobby: the ticks of status Pause, up to the tick that starts the game,
\* with the players free to ask for a team on any tick, and player 0 free to
\* spectate on any tick

JoinKeys == {0, KeyJoinRed, KeyJoinBlue}

LobbyInputs ==
    {keys \in [PlayerIds -> JoinKeys \cup {KeySpectate}] :
        \A p \in PlayerIds : keys[p] = KeySpectate => p = 0}

NextPause ==
    \/ status.tag = "Pause" /\ BeforeTick(LobbyInputs)
    \/ AfterTickPause

PauseSpec == Init /\ [][NextPause]_vars

----------------------------------------------------------------------------
\* check_ending on its own: the configured attempts, the status and the score
\* are drawn from bounded sets, and one call of check_ending follows. The
\* calls of after_tick find the status Game, or GameOver when an event of the
\* same tick ended the game already.

CheckEndingStatuses ==
    {StatusGameOver}
        \cup {StatusGame(z, r, g) : z \in Teams, r \in 0 .. MaxRounds, g \in BOOLEAN}

InitCheckEnding ==
    /\ CodecIdle
    /\ attempts \in 0 .. MaxAttempts
    /\ team_max = 1
    /\ status \in CheckEndingStatuses
    /\ \E rs \in 0 .. MaxGoals, bs \in 0 .. MaxGoals :
           game = [HQMGameNew EXCEPT
                      !.time = AttemptTime,
                      !.red_score = rs,
                      !.blue_score = bs,
                      !.game_over = (status.tag = "GameOver"),
                      !.time_break = IF status.tag = "GameOver" THEN GameOverBreak
                                     ELSE IF status.goal_scored THEN GoalBreak
                                     ELSE 0]
    /\ players = [p \in PlayerIds |-> Player(0)]
    /\ pc = "check_ending"
    /\ local = [in_zone |-> "Red", round |-> 0]
    /\ elapsed = 0
    /\ last = [type |-> "new"]

\* one call of check_ending; last keeps the status it was called in
CheckEnding ==
    /\ pc = "check_ending"
    /\ LET r == check_ending(Behaviour)
       IN  /\ status' = r.status
           /\ game' = r.game
    /\ pc' = "checked"
    /\ last' = [type |-> "check_ending", status |-> status]
    /\ UNCHANGED <<attempts, team_max, players, local, elapsed>>
    /\ UNCHANGED codecVars

NextCheckEnding == CheckEnding

CheckEndingSpec == InitCheckEnding /\ [][NextCheckEnding]_vars

----------------------------------------------------------------------------
\* The bit codec of hqm_parse.rs. A u32 is kept as its 32 bits, least
\* significant first; a byte is a number in 0 .. 255.

BitIndex == 0 .. (WordBits - 1)
U32Zero == [i \in BitIndex |-> 0]

\* the u32 with the low n bits set
U32Ones(n) == [i \in BitIndex |-> IF i < n THEN 1 ELSE 0]

\* the u32 x & !(u32::MAX << n), for n < 32
U32Low(x, n) == [i \in BitIndex |-> IF i < n THEN x[i] ELSE 0]

\* ((x >> p) & !(u32::MAX << bits)) as u8, for bits <= 8
RECURSIVE U32Field(_, _, _)
U32Field(x, p, bits) ==
    IF bits = 0 THEN 0
    ELSE (IF p < WordBits THEN x[p] ELSE 0) + 2 * U32Field(x, p + 1, bits - 1)

\* res | (a << p) on u32, a being a byte
U32OrShifted(res, a, p) ==
    [i \in BitIndex |->
        IF i >= p /\ i - p < ByteBits
        THEN Max(res[i], (a \div (2 ^ (i - p))) % 2)
        ELSE res[i]]

\* x | y on bytes
RECURSIVE ByteOr(_, _)
ByteOr(x, y) ==
    IF x = 0 THEN y
    ELSE IF y = 0 THEN x
    ELSE Max(x % 2, y % 2) + 2 * ByteOr(x \div 2, y \div 2)

\* HQMMessageWriter::new over a buffer
NewWriter(buf) == [buf |-> buf, pos |-> 0, bit_pos |-> 0]

\* HQMMessageReader::new (the buffer is the one the writer filled)
NewReader == [pos |-> 0, bit_pos |-> 0]

\* a write loop that overwrites the byte it continues
RECURSIVE write_loop_assign(_, _, _, _)
write_loop_assign(w, to_write, bits_remaining, p) ==
    IF bits_remaining = 0 THEN w
    ELSE LET bits_possible_to_write == ByteBits - w.bit_pos
             bits == Min(bits_remaining, bits_possible_to_write)
             a == U32Field(to_write, p, bits)
             w1 == [w EXCEPT !.buf[w.pos] = a]
         IN  IF bits_remaining >= bits_possible_to_write
             THEN write_loop_assign([w1 EXCEPT !.pos = @ + 1, !.bit_pos = 0], to_write,
                                    bits_remaining - bits_possible_to_write, p + bits)
             ELSE [w1 EXCEPT !.bit_pos = @ + bits]

\* a write loop that never assigns the byte it begins
RECURSIVE write_loop_or(_, _, _, _)
write_loop_or(w, to_write, bits_remaining, p) ==
    IF bits_remaining = 0 THEN w
    ELSE LET bits_possible_to_write == ByteBits - w.bit_pos
             bits == Min(bits_remaining, bits_possible_to_write)
             a == U32Field(to_write, p, bits)
             byte == ByteOr(w.buf[w.pos], (a * (2 ^ w.bit_pos)) % 256)
             w1 == [w EXCEPT !.buf[w.pos] = byte]
         IN  IF bits_remaining >= bits_possible_to_write
             THEN write_loop_or([w1 EXCEPT !.pos = @ + 1, !.bit_pos = 0], to_write,
                                bits_remaining - bits_possible_to_write, p + bits)
             ELSE [w1 EXCEPT !.bit_pos = @ + bits]

\* the while loop of HQMMessageWriter::write_bits
RECURSIVE write_loop(_, _, _, _)
write_loop(w, to_write, bits_remaining, p) ==
    IF bits_remaining = 0 THEN w
    ELSE LET bits_possible_to_write == ByteBits - w.bit_pos
             bits == Min(bits_remaining, bits_possible_to_write)
             a == U32Field(to_write, p, bits)
             byte == IF w.bit_pos = 0 THEN a
                     ELSE ByteOr(w.buf[w.pos], (a * (2 ^ w.bit_pos)) % 256)
             w1 == [w EXCEPT !.buf[w.pos] = byte]
         IN  IF bits_remaining >= bits_possible_to_write
             THEN write_loop([w1 EXCEPT !.pos = @ + 1, !.bit_pos = 0], to_write,
                             bits_remaining - bits_possible_to_write, p + bits)
             ELSE [w1 EXCEPT !.bit_pos = @ + bits]

\* HQMMessageWriter::write_bits
write_bits(w, n, v) ==
    write_loop(w, IF n < WordBits THEN U32Low(v, n) ELSE v, n, 0)

\* a read loop that moves to the next byte only when bits are left to read
RECURSIVE read_loop_late_carry(_, _, _, _, _)
read_loop_late_carry(r, buf, bits_remaining, res, p) ==
    IF bits_remaining = 0 THEN [rd |-> r, value |-> res]
    ELSE LET bits_possible_to_write == ByteBits - r.bit_pos
             bits == Min(bits_remaining, bits_possible_to_write)
             a == (buf[r.pos] \div (2 ^ r.bit_pos)) % (2 ^ bits)
             res1 == U32OrShifted(res, a, p)
         IN  IF bits_remaining > bits_possible_to_write
             THEN read_loop_late_carry([r EXCEPT !.pos = @ + 1, !.bit_pos = 0], buf,
                                       bits_remaining - bits_possible_to_write, res1,
                                       p + bits)
             ELSE [rd |-> [r EXCEPT !.bit_pos = @ + bits_remaining], value |-> res1]

\* the while loop of HQMMessageReader::read_bits: the reader and the value
RECURSIVE read_loop(_, _, _, _, _)
read_loop(r, buf, bits_remaining, res, p) ==
    IF bits_remaining = 0 THEN [rd |-> r, value |-> res]
    ELSE LET bits_possible_to_write == ByteBits - r.bit_pos
             bits == Min(bits_remaining, bits_possible_to_write)
             a == (buf[r.pos] \div (2 ^ r.bit_pos)) % (2 ^ bits)
             res1 == U32OrShifted(res, a, p)
         IN  IF bits_remaining >= bits_possible_to_write
             THEN read_loop([r EXCEPT !.pos = @ + 1, !.bit_pos = 0], buf,
                            bits_remaining - bits_possible_to_write, res1, p + bits)
             ELSE [rd |-> [r EXCEPT !.bit_pos = @ + bits_remaining], value |-> res1]

\* HQMMessageReader::read_bits
read_bits(r, buf, b) == read_loop(r, buf, b, U32Zero, 0)

\* the bits between the start of the buffer and a cursor
BitsBefore(c) == ByteBits * c.pos + c.bit_pos

\* the rules state machine at rest
RulesIdle ==
    /\ attempts = ConfiguredAttempts
    /\ team_max = 1
    /\ status = StatusPause
    /\ game = create_game
    /\ players = [p \in PlayerIds |-> Player(0)]
    /\ local = [in_zone |-> "Red", round |-> 0]
    /\ elapsed = 0
    /\ last = [type |-> "new"]

\* the bytes a caller's buffer may hold before the writer gets it
Fills == {0, 255}

\* the values written in n bits: all bits set, and every third bit set
FieldValues(n) ==
    {U32Ones(n), [i \in BitIndex |-> IF i < n /\ i % 3 = 0 THEN 1 ELSE 0]}

\* a writer over a buffer the caller supplies
InitCodec ==
    /\ RulesIdle
    /\ pc = "write"
    /\ \E fill \in Fills : wr = NewWriter([i \in 0 .. (BufLen - 1) |-> fill])
    /\ rd = NewReader
    /\ written = <<>>
    /\ result = [type |-> "none"]

\* one call of write_bits that fits the buffer; written keeps the width, the
\* value and the cursor the call started at
WriteBits ==
    /\ pc = "write"
    /\ Len(written) < MaxWrites
    /\ \E n \in 1 .. WordBits :
          /\ BitsBefore(wr) + n <= ByteBits * BufLen
          /\ \E v \in FieldValues(n) :
                /\ wr' = write_bits(wr, n, v)
                /\ written' = Append(written,
                                     [n |-> n, v |-> v,
                                      at |-> [pos |-> wr.pos, bit_pos |-> wr.bit_pos]])
    /\ UNCHANGED <<pc, rd, result>>
    /\ UNCHANGED rulesVars

\* the message is handed to a reader, which replays one read_bits per field
ReadBits ==
    /\ pc \in {"write", "read"}
    /\ written # <<>>
    /\ LET f == Head(written)
           r == read_bits(rd, wr.buf, f.n)
       IN  /\ rd' = r.rd
           /\ result' = [type |-> "read_bits", n |-> f.n, expected |-> f.v,
                         value |-> r.value, written_at |-> f.at,
                         read_at |-> rd]
    /\ written' = Tail(written)
    /\ pc' = "read"
    /\ UNCHANGED wr
    /\ UNCHANGED rulesVars

NextCodec ==
    \/ WriteBits
    \/ ReadBits

CodecSpec == InitCodec /\ [][NextCodec]_vars

----------------------------------------------------------------------------
\* The object slots on their own: objects are created with
\* create_puck_object and create_player_object (one skater per player, as the
\* server asks for them) and removed by move_to_spectator and clear_pucks.
\* last keeps the Option the creation returned.

InitWorld ==
    /\ CodecIdle
    /\ attempts = ConfiguredAttempts
    /\ team_max = 1
    /\ status = StatusPause
    /\ game = create_game
    /\ players = [p \in PlayerIds |-> Player(0)]
    /\ pc = "world"
    /\ local = [in_zone |-> "Red", round |-> 0]
    /\ elapsed = 0
    /\ last = [type |-> "new"]

CreatePuckObject ==
    /\ pc = "world"
    /\ game' = [game EXCEPT !.objects = create_puck_object(@, PuckPos("Red"))]
    /\ last' = [type |-> "create_puck_object",
                slot |-> find_empty_object_slot(game.objects)]
    /\ UNCHANGED <<attempts, team_max, status, players, pc, local, elapsed>>
    /\ UNCHANGED codecVars

CreatePlayerObject ==
    /\ pc = "world"
    /\ \E p \in PlayerIds :
          /\ ~has_skater(game.objects, p)
          /\ game' = [game EXCEPT !.objects =
                         create_player_object(@, <<1, 4, RinkLength>>, p,
                                              IF p % 2 = 0 THEN "Red" ELSE "Blue")]
          /\ last' = [type |-> "create_player_object", player |-> p,
                      slot |-> find_empty_object_slot(game.objects)]
    /\ UNCHANGED <<attempts, team_max, status, players, pc, local, elapsed>>
    /\ UNCHANGED codecVars

MoveToSpectator ==
    /\ pc = "world"
    /\ \E p \in PlayerIds :
          /\ has_skater(game.objects, p)
          /\ game' = [game EXCEPT !.objects = move_to_spectator(@, p)]
          /\ last' = [type |-> "move_to_spectator", player |-> p]
    /\ UNCHANGED <<attempts, team_max, status, players, pc, local, elapsed>>
    /\ UNCHANGED codecVars

ClearPucks ==
    /\ pc = "world"
    /\ game' = [game EXCEPT !.objects = clear_pucks(@)]
    /\ last' = [type |-> "clear_pucks"]
    /\ UNCHANGED <<attempts, team_max, status, players, pc, local, elapsed>>
    /\ UNCHANGED codecVars

NextWorld ==
    \/ CreatePuckObject
    \/ CreatePlayerObject
    \/ MoveToSpectator
    \/ ClearPucks

WorldSpec == InitWorld /\ [][NextWorld]_vars

----------------------------------------------------------------------------
\* Joining: the lobby with three connected players and one or two places per
\* team. Every tick of status Pause each player may ask for a team, and
\* player 0 may also spectate. A countdown, of the game or of a player's
\* team_switch_timer, is followed for MaxJoinTicks ticks. last keeps the
\* three lists update_players made of the keys of the tick, and whether the
\* two slices were in bounds.

JoinPlayers == {0, 1, 2}

MaxJoinTicks == 3

TeamMaxValues == {1, 2}

InitJoin ==
    /\ CodecIdle
    /\ attempts = ConfiguredAttempts
    /\ team_max \in TeamMaxValues
    /\ status = StatusPause
    /\ game = create_game
    /\ players = [p \in JoinPlayers |-> Player(0)]
    /\ pc = "before_tick"
    /\ local = [in_zone |-> "Red", round |-> 0]
    /\ elapsed = 0
    /\ last = [type |-> "new"]

JoinInputs ==
    {keys \in [JoinPlayers -> JoinKeys \cup {KeySpectate}] :
        \A p \in JoinPlayers :
            keys[p] = KeySpectate => p = 0}

\* before_tick
JoinTick ==
    /\ pc = "before_tick"
    /\ status.tag = "Pause"
    /\ game.time > PauseTime - MaxJoinTicks
    /\ \A p \in JoinPlayers :
          \/ players[p].team_switch_timer = 0
          \/ players[p].team_switch_timer > SwitchTime - MaxJoinTicks
    /\ \E keys \in JoinInputs :
          LET j == join_requests(game.objects, players, keys)
              r == update_players(game.objects, players, keys)
          IN  /\ game' = [game EXCEPT !.objects = r.objects]
              /\ players' = r.players
              /\ last' = [type |-> "before_tick",
                          spectating |-> j.spectating,
                          joining_red |-> j.joining_red,
                          joining_blue |-> j.joining_blue,
                          in_bounds |->
                             /\ slice_in_bounds(j.joining_red, j.num_joining_red)
                             /\ slice_in_bounds(j.joining_blue, j.num_joining_blue)]
    /\ pc' = "after_tick"
    /\ UNCHANGED <<attempts, team_max, status, local, elapsed>>
    /\ UNCHANGED codecVars

NextJoin ==
    \/ JoinTick
    \/ AfterTickPause

JoinSpec == InitJoin /\ [][NextJoin]_vars

----------------------------------------------------------------------------
\* Commands: the rules state machine with a chat command handled between two
\* ticks. Player 0 is logged in as admin, player 1 is not, and slot 2 of the
\* player table is empty. Commands arrive before the ticks on which events
\* do and before the first tick of status GameOver.

AdminPlayers == {0}

CommandPlayers == {0, 1, 2}

Commands == {"reset", "resetgame"}

CommandTime ==
    \/ game.time \in EventTimes
    \/ status.tag = "GameOver" /\ game.time_break = GameOverBreak

\* server.players.get(player_index)
players_get(pl, player_index) ==
    IF player_index \in DOMAIN pl THEN pl[player_index] ELSE NoPlayer

ResetMessage(player_index) == [type |-> "Chat", text |-> <<"Game reset by", player_index>>]

\* HQMServer::add_server_chat_message: one Chat message is appended to the log
add_server_chat_message(g, msg) ==
    [g EXCEPT !.global_messages = @ (+) SetToBag({msg})]

\* a reset_game that does not look at is_admin
reset_game_for_all(b, pl, player_index) ==
    IF players_get(pl, player_index).connected
    THEN LET b1 == new_game(b)
         IN  [status |-> b1.status,
              game |-> add_server_chat_message(b1.game, ResetMessage(player_index)),
              denied |-> {}]
    ELSE [status |-> b.status, game |-> b.game, denied |-> {}]

\* HQMRussianBehaviour::reset_game: the status, the game, and the players
\* admin_deny_message was called for
reset_game(b, pl, player_index) ==
    IF players_get(pl, player_index).connected
    THEN IF player_index \in AdminPlayers
         THEN LET b1 == new_game(b)
              IN  [status |-> b1.status,
                   game |-> add_server_chat_message(b1.game, ResetMessage(player_index)),
                   denied |-> {}]
         ELSE [status |-> b.status, game |-> b.game, denied |-> {player_index}]
    ELSE [status |-> b.status, game |-> b.game, denied |-> {}]

\* HQMRussianBehaviour::handle_command
handle_command(b, pl, cmd, player_index) ==
    IF cmd \in {"reset", "resetgame"} THEN reset_game(b, pl, player_index)
    ELSE [status |-> b.status, game |-> b.game, denied |-> {}]

InitReset ==
    /\ CodecIdle
    /\ attempts = ConfiguredAttempts
    /\ team_max = 1
    /\ status = StatusPause
    /\ game = create_game
    /\ players = [p \in CommandPlayers |-> IF p \in PlayerIds THEN Player(0) ELSE NoPlayer]
    /\ pc = "before_tick"
    /\ local = [in_zone |-> "Red", round |-> 0]
    /\ elapsed = 0
    /\ last = [type |-> "new"]

HandleCommand ==
    /\ pc = "before_tick"
    /\ CommandTime
    /\ \E cmd \in Commands : \E player_index \in CommandPlayers :
          LET r == handle_command(Behaviour, players, cmd, player_index)
          IN  /\ status' = r.status
              /\ game' = r.game
              /\ last' = [type |-> "handle_command", cmd |-> cmd,
                          player_index |-> player_index, denied |-> r.denied,
                          from |-> [tag |-> status.tag,
                                    goals |-> game.red_score + game.blue_score]]
              /\ elapsed' = IF r.game = game THEN elapsed ELSE 0
    /\ UNCHANGED <<attempts, team_max, players, pc, local>>
    /\ UNCHANGED codecVars

NextReset ==
    \/ BeforeTick(RulesInputs)
    \/ AfterTick
    \/ HandleCommand

ResetSpec == InitReset /\ [][NextReset]_vars

----------------------------------------------------------------------------
\* The aligned operations of the message codec

\* an align that always moves to the next byte
align_always(c) == [c EXCEPT !.bit_pos = 0, !.pos = @ + 1]

\* HQMMessageWriter::align and HQMMessageReader::align
align(c) ==
    IF c.bit_pos > 0 THEN [c EXCEPT !.bit_pos = 0, !.pos = @ + 1] ELSE c

\* for b in v { buf[pos] = *b; pos += 1 }
RECURSIVE write_bytes_loop(_, _)
write_bytes_loop(w, v) ==
    IF v = <<>> THEN w
    ELSE write_bytes_loop([w EXCEPT !.buf[w.pos] = Head(v), !.pos = @ + 1], Tail(v))

\* HQMMessageWriter::write_byte_aligned
write_byte_aligned(w, v) ==
    LET w1 == align(w)
    IN  [w1 EXCEPT !.buf[w1.pos] = v, !.pos = @ + 1]

\* HQMMessageWriter::write_bytes_aligned
write_bytes_aligned(w, v) == write_bytes_loop(align(w), v)

\* HQMMessageWriter::write_bytes_aligned_padded
write_bytes_aligned_padded(w, n, v) ==
    LET w1 == align(w)
        m == Min(n, Len(v))
        w2 == write_bytes_aligned(w1, SubSeq(v, 1, m))
    IN  IF n > m THEN write_bytes_loop(w2, [k \in 1 .. (n - m) |-> 0]) ELSE w2

\* a write_u32_aligned that puts the highest byte first
write_u32_aligned_big_endian(w, v) ==
    LET w1 == align(w)
    IN  [w1 EXCEPT !.buf[w1.pos] = U32Field(v, 24, ByteBits),
                   !.buf[w1.pos + 1] = U32Field(v, 16, ByteBits),
                   !.buf[w1.pos + 2] = U32Field(v, 8, ByteBits),
                   !.buf[w1.pos + 3] = U32Field(v, 0, ByteBits),
                   !.pos = @ + 4]

\* HQMMessageWriter::write_u32_aligned
write_u32_aligned(w, v) ==
    LET w1 == align(w)
    IN  [w1 EXCEPT !.buf[w1.pos] = U32Field(v, 0, ByteBits),
                   !.buf[w1.pos + 1] = U32Field(v, 8, ByteBits),
                   !.buf[w1.pos + 2] = U32Field(v, 16, ByteBits),
                   !.buf[w1.pos + 3] = U32Field(v, 24, ByteBits),
                   !.pos = @ + 4]

\* an f32 is its sign bit, its 8 exponent bits and its 23 fraction bits
F32(sign, exponent, fraction) ==
    [sign |-> sign, exponent |-> exponent, fraction |-> fraction]

\* f32::to_bits
f32_to_bits(f) ==
    [i \in BitIndex |->
        IF i = 31 THEN f.sign
        ELSE IF i >= 23 THEN (f.exponent \div (2 ^ (i - 23))) % 2
        ELSE (f.fraction \div (2 ^ i)) % 2]

\* the number held by bits lo .. hi - 1 of a u32, for hi - lo < 31
RECURSIVE U32Number(_, _, _)
U32Number(x, lo, hi) ==
    IF lo >= hi THEN 0 ELSE x[lo] + 2 * U32Number(x, lo + 1, hi)

\* f32::from_bits
f32_from_bits(x) == F32(x[31], U32Number(x, 23, 31), U32Number(x, 0, 23))

\* HQMMessageWriter::write_f32_aligned
write_f32_aligned(w, v) == write_u32_aligned(w, f32_to_bits(v))

\* HQMMessageReader::read_byte_aligned
read_byte_aligned(r, buf) ==
    LET r1 == align(r)
    IN  [rd |-> [r1 EXCEPT !.pos = @ + 1], value |-> buf[r1.pos]]

\* HQMMessageReader::read_bytes_aligned
read_bytes_aligned(r, buf, n) ==
    LET r1 == align(r)
    IN  [rd |-> [r1 EXCEPT !.pos = @ + n],
         value |-> [k \in 1 .. n |-> buf[r1.pos + k - 1]]]

\* HQMMessageReader::read_u16_aligned: b1 | b2 << 8 on u16
read_u16_aligned(r, buf) ==
    LET r1 == align(r)
        b1 == buf[r1.pos]
        b2 == buf[r1.pos + 1]
    IN  [rd |-> [r1 EXCEPT !.pos = @ + 2], value |-> ByteOr(b1, (b2 * 256) % 65536)]

\* HQMMessageReader::read_u32_aligned: b1 | b2 << 8 | b3 << 16 | b4 << 24
read_u32_aligned(r, buf) ==
    LET r1 == align(r)
        b1 == buf[r1.pos]
        b2 == buf[r1.pos + 1]
        b3 == buf[r1.pos + 2]
        b4 == buf[r1.pos + 3]
    IN  [rd |-> [r1 EXCEPT !.pos = @ + 4],
         value |-> U32OrShifted(U32OrShifted(U32OrShifted(U32OrShifted(U32Zero,
                       b1, 0), b2, 8), b3, 16), b4, 24)]

\* HQMMessageReader::read_f32_aligned
read_f32_aligned(r, buf) ==
    LET x == read_u32_aligned(r, buf)
    IN  [rd |-> x.rd, value |-> f32_from_bits(x.value)]


\* the cursor of a writer or reader
Cursor(c) == [pos |-> c.pos, bit_pos |-> c.bit_pos]

MaxOps == 3

AlignedWidths == {1, 7, 12}
ByteValues == {165}
ByteLists == {<<1, 200>>}
PaddedArgs == {[n |-> 3, v |-> <<9>>], [n |-> 1, v |-> <<9, 8>>]}
U32Values == {[i \in BitIndex |-> IF i % 3 = 0 THEN 1 ELSE 0]}
F32Values == {F32(1, 129, 2796202)}

\* a writer over a buffer the caller supplies
InitAligned ==
    /\ RulesIdle
    /\ pc = "write"
    /\ \E fill \in Fills : wr = NewWriter([i \in 0 .. (BufLen - 1) |-> fill])
    /\ rd = NewReader
    /\ written = <<>>
    /\ result = [type |-> "none"]

\* the writer may take another operation of len whole bytes
MayWriteAligned(len) ==
    /\ pc = "write"
    /\ Len(written) < MaxOps
    /\ align(wr).pos + len <= BufLen

\* written keeps the operation, its arguments, and the writer's cursor before
\* and after it
Written(op, n, v) ==
    Append(written, [op |-> op, n |-> n, v |-> v, at |-> Cursor(wr), end |-> Cursor(wr')])

WriteBitsMixed ==
    /\ pc = "write"
    /\ Len(written) < MaxOps
    /\ \E n \in AlignedWidths :
          /\ BitsBefore(wr) + n <= ByteBits * BufLen
          /\ \E v \in FieldValues(n) :
                /\ wr' = write_bits(wr, n, v)
                /\ written' = Written("write_bits", n, v)
    /\ UNCHANGED <<pc, rd, result>>
    /\ UNCHANGED rulesVars

WriteByteAligned ==
    /\ MayWriteAligned(1)
    /\ \E v \in ByteValues :
          /\ wr' = write_byte_aligned(wr, v)
          /\ written' = Written("write_byte_aligned", 1, v)
    /\ UNCHANGED <<pc, rd, result>>
    /\ UNCHANGED rulesVars

WriteBytesAligned ==
    /\ \E v \in ByteLists :
          /\ MayWriteAligned(Len(v))
          /\ wr' = write_bytes_aligned(wr, v)
          /\ written' = Written("write_bytes_aligned", Len(v), v)
    /\ UNCHANGED <<pc, rd, result>>
    /\ UNCHANGED rulesVars

WriteBytesAlignedPadded ==
    /\ \E a \in PaddedArgs :
          /\ MayWriteAligned(a.n)
          /\ wr' = write_bytes_aligned_padded(wr, a.n, a.v)
          /\ written' = Written("write_bytes_aligned_padded", a.n, a.v)
    /\ UNCHANGED <<pc, rd, result>>
    /\ UNCHANGED rulesVars

WriteU32Aligned ==
    /\ MayWriteAligned(4)
    /\ \E v \in U32Values :
          /\ wr' = write_u32_aligned(wr, v)
          /\ written' = Written("write_u32_aligned", 4, v)
    /\ UNCHANGED <<pc, rd, result>>
    /\ UNCHANGED rulesVars

WriteF32Aligned ==
    /\ MayWriteAligned(4)
    /\ \E v \in F32Values :
          /\ wr' = write_f32_aligned(wr, v)
          /\ written' = Written("write_f32_aligned", 4, v)
    /\ UNCHANGED <<pc, rd, result>>
    /\ UNCHANGED rulesVars

\* the reads that match a write; two bytes may also be read as a u16
MatchingReads(f) ==
    CASE f.op = "write_bits" -> {"read_bits"}
      [] f.op = "write_byte_aligned" -> {"read_byte_aligned"}
      [] f.op = "write_bytes_aligned" ->
            IF f.n = 2 THEN {"read_bytes_aligned", "read_u16_aligned"}
            ELSE {"read_bytes_aligned"}
      [] f.op = "write_bytes_aligned_padded" -> {"read_bytes_aligned"}
      [] f.op = "write_u32_aligned" -> {"read_u32_aligned"}
      [] f.op = "write_f32_aligned" -> {"read_f32_aligned"}

\* one read of the reader
read(op, r, buf, n) ==
    CASE op = "read_bits" -> read_bits(r, buf, n)
      [] op = "read_byte_aligned" -> read_byte_aligned(r, buf)
      [] op = "read_bytes_aligned" -> read_bytes_aligned(r, buf, n)
      [] op = "read_u16_aligned" -> read_u16_aligned(r, buf)
      [] op = "read_u32_aligned" -> read_u32_aligned(r, buf)
      [] op = "read_f32_aligned" -> read_f32_aligned(r, buf)

\* the message is handed to a reader, which replays the matching read of the
\* next write
ReadBack ==
    /\ pc \in {"write", "read"}
    /\ written # <<>>
    /\ LET f == Head(written)
       IN  \E op \in MatchingReads(f) :
              LET r == read(op, rd, wr.buf, f.n)
              IN  /\ rd' = r.rd
                  /\ result' = [type |-> op, write |-> f, value |-> r.value,
                                read_at |-> rd]
    /\ written' = Tail(written)
    /\ pc' = "read"
    /\ UNCHANGED wr
    /\ UNCHANGED rulesVars

NextAligned ==
    \/ WriteBitsMixed
    \/ WriteByteAligned
    \/ WriteBytesAligned
    \/ WriteBytesAlignedPadded
    \/ WriteU32Aligned
    \/ WriteF32Aligned
    \/ ReadBack

AlignedSpec == InitAligned /\ [][NextAligned]_vars

----------------------------------------------------------------------------
\* read_bits_signed. An i32 is held as its 32 bits, bit 31 being the sign.

\* x | y on 32-bit words
WordOr(x, y) == [i \in BitIndex |-> Max(x[i], y[i])]

\* -1i32 << s, for s < 32
MinusOneShl(s) == [i \in BitIndex |-> IF i >= s THEN 1 ELSE 0]

\* a >= 1u32 << s, for s < 32
AtLeastBit(a, s) == \E i \in BitIndex : i >= s /\ a[i] = 1

\* the outcome of a read: the reader, whether the call panicked, the value
Returned(r, value) == [rd |-> r, panic |-> FALSE, value |-> value]
Panicked(r) == [rd |-> r, panic |-> TRUE, value |-> U32Zero]

\* HQMMessageReader::read_bits_signed for b in 1..32. The shift -1 << b
\* overflows for b = 32: with overflow checks the call panics, without them
\* the shift amount is taken modulo 32.
read_bits_signed(r, buf, b, overflow_checks) ==
    LET x == read_bits(r, buf, b)
        a == x.value
    IN  IF AtLeastBit(a, b - 1)
        THEN IF b >= WordBits /\ overflow_checks THEN Panicked(x.rd)
             ELSE Returned(x.rd, WordOr(MinusOneShl(b % WordBits), a))
        ELSE Returned(x.rd, a)

\* the bit offsets the signed field is written at
SignedOffsets == 0 .. 7

\* the values written in n bits: all bits set, every third bit set, only the
\* top bit set, all bits but the top one set
SignedValues(n) ==
    FieldValues(n) \cup {[i \in BitIndex |-> IF i = n - 1 THEN 1 ELSE 0],
                         [i \in BitIndex |-> IF i < n - 1 THEN 1 ELSE 0]}

\* write_bits of the bits before the field, and of the field
WriteSignedField ==
    /\ pc = "write"
    /\ written = <<>>
    /\ \E o \in SignedOffsets : \E n \in 1 .. WordBits : \E v \in SignedValues(n) :
          LET w1 == IF o = 0 THEN wr ELSE write_bits(wr, o, U32Ones(o))
          IN  /\ wr' = write_bits(w1, n, v)
              /\ written' = <<[n |-> n, v |-> v, at |-> Cursor(w1)]>>
    /\ pc' = "read"
    /\ UNCHANGED <<rd, result>>
    /\ UNCHANGED rulesVars

\* read_bits of the bits before the field, then read_bits_signed
ReadBitsSigned ==
    /\ pc = "read"
    /\ written # <<>>
    /\ \E overflow_checks \in BOOLEAN :
          LET f == Head(written)
              o == BitsBefore(f.at)
              r1 == IF o = 0 THEN rd ELSE read_bits(rd, wr.buf, o).rd
              x == read_bits_signed(r1, wr.buf, f.n, overflow_checks)
          IN  /\ rd' = x.rd
              /\ result' = [type |-> "read_bits_signed", n |-> f.n, a |-> f.v,
                            panic |-> x.panic, value |-> x.value,
                            overflow_checks |-> overflow_checks, read_at |-> Cursor(r1)]
    /\ written' = <<>>
    /\ pc' = "done"
    /\ UNCHANGED wr
    /\ UNCHANGED rulesVars

NextSigned ==
    \/ WriteSignedField
    \/ ReadBitsSigned

SignedSpec == InitCodec /\ [][NextSigned]_vars

----------------------------------------------------------------------------
\* write_pos and read_pos

\* the number an i32 holds
I32Number(x) ==
    IF x[31] = 1 THEN (U32Number(x, 0, 31) - 2 ^ 30) - 2 ^ 30
    ELSE U32Number(x, 0, 31)

\* i32::MAX
MaxI32 == (2 ^ 30 - 1) + 2 ^ 30

\* the u32 of a number in 0 .. i32::MAX
U32Of(n) == [i \in BitIndex |-> IF i < 31 THEN (n \div (2 ^ i)) % 2 ELSE 0]

\* Option<u32>
NoValue == [some |-> FALSE]
SomeValue(x) == [some |-> TRUE, value |-> x]

\* a write_pos that writes the header of a 12-bit delta
write_pos_delta_header(w, n, v) == write_bits(write_bits(w, 2, U32Of(2)), n, v)

\* HQMMessageWriter::write_pos
write_pos(w, n, v) == write_bits(write_bits(w, 2, U32Of(3)), n, v)

\* an add_diff that takes the delta off the old value
add_diff_minus(r, diff, old_value, overflow_checks) ==
    IF ~old_value.some THEN Panicked(r)
    ELSE IF old_value.value[31] = 1 THEN Panicked(r)
    ELSE LET old == U32Number(old_value.value, 0, 31)
             d == I32Number(diff)
         IN  IF old - d < 0 THEN Panicked(r)
             ELSE Returned(r, U32Of(old - d))

\* u32::try_from(diff + i32::try_from(old_value.unwrap()).unwrap()).unwrap():
\* unwrap panics without an old value, the first try_from fails above
\* i32::MAX, the sum overflows above i32::MAX (a panic with overflow checks,
\* a negative number without them) and the second try_from fails below 0
add_diff(r, diff, old_value, overflow_checks) ==
    IF ~old_value.some THEN Panicked(r)
    ELSE IF old_value.value[31] = 1 THEN Panicked(r)
    ELSE LET old == U32Number(old_value.value, 0, 31)
             d == I32Number(diff)
         IN  IF d > 0 /\ old > MaxI32 - d THEN Panicked(r)
             ELSE IF old + d < 0 THEN Panicked(r)
             ELSE Returned(r, U32Of(old + d))

\* HQMMessageReader::read_pos
read_pos(r, buf, b, old_value, overflow_checks) ==
    LET h == read_bits(r, buf, 2)
        pos_type == U32Number(h.value, 0, 2)
    IN  IF pos_type = 3
        THEN LET x == read_bits(h.rd, buf, b) IN Returned(x.rd, x.value)
        ELSE LET width == CASE pos_type = 0 -> 3 [] pos_type = 1 -> 6 [] pos_type = 2 -> 12
                 diff == read_bits_signed(h.rd, buf, width, overflow_checks)
             IN  IF diff.panic THEN diff
                 ELSE add_diff(diff.rd, diff.value, old_value, overflow_checks)

\* the widths of a position
PosWidths == 1 .. WordBits

\* the bit offsets a position is written at
PosOffsets == {0, 5}

\* the old values of the reader: none, 0, 5, 100000, 2^17 - 1, i32::MAX,
\* 2^31, u32::MAX
OldValues ==
    {NoValue, SomeValue(U32Zero), SomeValue(U32Of(5)), SomeValue(U32Of(100000)),
     SomeValue(U32Ones(17)),
     SomeValue(U32Of(MaxI32)), SomeValue([i \in BitIndex |-> IF i = 31 THEN 1 ELSE 0]),
     SomeValue(U32Ones(WordBits))}

\* the delta records a peer may send: the header and the bits of the delta
DeltaRecords ==
    {[header |-> 0, width |-> 3, bits |-> d] : d \in 0 .. 7}
        \cup {[header |-> 1, width |-> 6, bits |-> d] : d \in {0, 5, 31, 32, 63}}
        \cup {[header |-> 2, width |-> 12, bits |-> d] : d \in {0, 5, 2047, 2048, 4095}}

\* write_bits of the bits before the position, and write_pos
WritePos ==
    /\ pc = "write"
    /\ written = <<>>
    /\ \E o \in PosOffsets : \E n \in PosWidths : \E v \in FieldValues(n) \cup {U32Zero} :
          LET w1 == IF o = 0 THEN wr ELSE write_bits(wr, o, U32Ones(o))
          IN  /\ wr' = write_pos(w1, n, v)
              /\ written' = <<[op |-> "write_pos", header |-> 3, width |-> n, v |-> v,
                               at |-> Cursor(w1)]>>
    /\ pc' = "read"
    /\ UNCHANGED <<rd, result>>
    /\ UNCHANGED rulesVars

\* a delta record as a peer writes it: the header and the delta in its width
WriteDelta ==
    /\ pc = "write"
    /\ written = <<>>
    /\ \E o \in PosOffsets : \E rec \in DeltaRecords :
          LET w1 == IF o = 0 THEN wr ELSE write_bits(wr, o, U32Ones(o))
              w2 == write_bits(w1, 2, U32Of(rec.header))
          IN  /\ wr' = write_bits(w2, rec.width, U32Of(rec.bits))
              /\ written' = <<[op |-> "delta", header |-> rec.header,
                               width |-> rec.width, v |-> U32Of(rec.bits),
                               at |-> Cursor(w1)]>>
    /\ pc' = "read"
    /\ UNCHANGED <<rd, result>>
    /\ UNCHANGED rulesVars

\* read_bits of the bits before the position, then read_pos; b is the width
\* of the position
ReadPos ==
    /\ pc = "read"
    /\ written # <<>>
    /\ \E old_value \in OldValues : \E overflow_checks \in BOOLEAN :
       \E b \in IF Head(written).op = "write_pos" THEN {Head(written).width}
                ELSE {17, WordBits} :
          LET f == Head(written)
              o == BitsBefore(f.at)
              r1 == IF o = 0 THEN rd ELSE read_bits(rd, wr.buf, o).rd
              x == read_pos(r1, wr.buf, b, old_value, overflow_checks)
          IN  /\ rd' = x.rd
              /\ result' = [type |-> "read_pos", write |-> f, b |-> b,
                            old_value |-> old_value, panic |-> x.panic,
                            value |-> x.value]
    /\ written' = <<>>
    /\ pc' = "done"
    /\ UNCHANGED wr
    /\ UNCHANGED rulesVars

NextPos ==
    \/ WritePos
    \/ WriteDelta
    \/ ReadPos

PosSpec == InitCodec /\ [][NextPos]_vars

----------------------------------------------------------------------------
\* Reads of a datagram shorter than the fields read from it. The reader
\* indexes its slice with self.buf[self.pos]; a slice index that is not below
\* the length of the slice panics, in every build.

\* i is an index of the slice
index_in_slice(buf, i) == i \in DOMAIN buf

\* the indexes the loop of read_bits uses for b bits
read_bits_indexes(r, b) ==
    IF b = 0 THEN {} ELSE r.pos .. ((BitsBefore(r) + b - 1) \div ByteBits)

\* HQMMessageReader::read_bits on a slice
read_bits_slice(r, buf, b) ==
    IF \A i \in read_bits_indexes(r, b) : index_in_slice(buf, i)
    THEN LET x == read_bits(r, buf, b) IN Returned(x.rd, x.value)
    ELSE Panicked(r)

\* HQMMessageReader::read_bits_signed on a slice
read_bits_signed_slice(r, buf, b, overflow_checks) ==
    IF read_bits_slice(r, buf, b).panic THEN Panicked(r)
    ELSE read_bits_signed(r, buf, b, overflow_checks)

\* HQMMessageReader::read_pos on a slice: the header, then the delta or the
\* b bits
read_pos_slice(r, buf, b, old_value, overflow_checks) ==
    LET h == read_bits_slice(r, buf, 2)
    IN  IF h.panic THEN Panicked(r)
        ELSE LET pos_type == U32Number(h.value, 0, 2)
                 width == CASE pos_type = 0 -> 3 [] pos_type = 1 -> 6
                            [] pos_type = 2 -> 12 [] pos_type = 3 -> b
             IN  IF read_bits_slice(h.rd, buf, width).panic THEN Panicked(h.rd)
                 ELSE read_pos(r, buf, b, old_value, overflow_checks)

\* the aligned reads
AlignedReads == {"byte", "bytes", "u16", "u32", "f32"}

\* the bytes an aligned read indexes, n being the argument of
\* read_bytes_aligned
aligned_len(op, n) ==
    CASE op = "byte" -> 1 [] op = "bytes" -> n [] op = "u16" -> 2
      [] op = "u32" -> 4 [] op = "f32" -> 4

\* the aligned reads on a slice
read_aligned_slice(op, r, buf, n) ==
    LET r1 == align(r)
    IN  IF \A i \in r1.pos .. (r1.pos + aligned_len(op, n) - 1) : index_in_slice(buf, i)
        THEN LET x == CASE op = "byte" -> read_byte_aligned(r, buf)
                        [] op = "bytes" -> read_bytes_aligned(r, buf, n)
                        [] op = "u16" -> read_u16_aligned(r, buf)
                        [] op = "u32" -> read_u32_aligned(r, buf)
                        [] op = "f32" -> read_f32_aligned(r, buf)
             IN  Returned(x.rd, x.value)
        ELSE Panicked(r1)

\* the longest datagram and the most reads of one datagram
MaxDatagram == 4
MaxReads == 2

\* the bytes of a datagram: every byte 0x00 (header 00), 0xFF (header 11),
\* 0x55 (header 01) or 0x56 (header 10)
DatagramBytes == {0, 255, 85, 86}

\* the widths read
ReadWidths == {0, 1, 3, 8, 17, 32}

\* a reader over a datagram of 0 .. MaxDatagram bytes
InitDatagram ==
    /\ RulesIdle
    /\ pc = "read"
    /\ \E len \in 0 .. MaxDatagram : \E byte \in DatagramBytes :
          wr = [buf |-> [i \in 0 .. (len - 1) |-> byte], pos |-> len, bit_pos |-> 0]
    /\ rd = NewReader
    /\ written = <<>>
    /\ result = [type |-> "none"]

\* the outcome of a read of the datagram: the call, the cursor it started
\* at, whether it panicked; a panic ends the thread
Outcome(call, x) ==
    /\ rd' = x.rd
    /\ result' = [type |-> "datagram", call |-> call, at |-> Cursor(rd),
                  panic |-> x.panic]
    /\ written' = Append(written, call.op)
    /\ pc' = IF x.panic THEN "panicked" ELSE "read"
    /\ UNCHANGED wr
    /\ UNCHANGED rulesVars

DatagramReadBits ==
    /\ pc = "read"
    /\ Len(written) < MaxReads
    /\ \E b \in ReadWidths :
          Outcome([op |-> "read_bits", b |-> b], read_bits_slice(rd, wr.buf, b))

DatagramReadBitsSigned ==
    /\ pc = "read"
    /\ Len(written) < MaxReads
    /\ \E b \in ReadWidths \ {0} : \E overflow_checks \in BOOLEAN :
          Outcome([op |-> "read_bits_signed", b |-> b],
                  read_bits_signed_slice(rd, wr.buf, b, overflow_checks))

DatagramReadPos ==
    /\ pc = "read"
    /\ Len(written) < MaxReads
    /\ \E b \in {17} : \E old_value \in {NoValue, SomeValue(U32Of(100000))} :
       \E overflow_checks \in BOOLEAN :
          Outcome([op |-> "read_pos", b |-> b, old_value |-> old_value],
                  read_pos_slice(rd, wr.buf, b, old_value, overflow_checks))

DatagramReadAligned ==
    /\ pc = "read"
    /\ Len(written) < MaxReads
    /\ \E op \in AlignedReads : \E n \in IF op = "bytes" THEN 0 .. 3 ELSE {0} :
          Outcome([op |-> op, n |-> n], read_aligned_slice(op, rd, wr.buf, n))

NextDatagram ==
    \/ DatagramReadBits
    \/ DatagramReadBitsSigned
    \/ DatagramReadPos
    \/ DatagramReadAligned

DatagramSpec == InitDatagram /\ [][NextDatagram]_vars

----------------------------------------------------------------------------
\* The rotation codec of hqm_parse.rs. A vector of the triangle refinement is
\* kept as the expression that builds it: an axis of the octant table, or the
\* normalized sum of vectors.

\* the unit vectors uxp, uxn, uyp, uyn, uzp, uzn
Axis(name) == [axis |-> name, of |-> {}]

\* (x + y).normalize()
midpoint(x, y) == [axis |-> "", of |-> {x, y}]

\* (temp1 + temp2 + temp3).normalize()
normalized_sum(t) == [axis |-> "", of |-> {t[1], t[2], t[3]}]

\* the table a of both functions: the triangle of octant 0 .. 7
OctantTable ==
    <<  <<Axis("uyp"), Axis("uxp"), Axis("uzp")>>,
        <<Axis("uyp"), Axis("uzp"), Axis("uxn")>>,
        <<Axis("uyp"), Axis("uzn"), Axis("uxp")>>,
        <<Axis("uyp"), Axis("uxn"), Axis("uzn")>>,
        <<Axis("uzp"), Axis("uxp"), Axis("uyn")>>,
        <<Axis("uxn"), Axis("uzp"), Axis("uyn")>>,
        <<Axis("uxp"), Axis("uzn"), Axis("uyn")>>,
        <<Axis("uzn"), Axis("uxn"), Axis("uyn")>>  >>

\* the input vector of the encoder, as far as the encoder looks at it: the
\* signs of its components and, for each pass of the loop, whether a1.dot(v),
\* a2.dot(v) and a3.dot(v) are below 0
Vector(x_neg, y_neg, z_neg, tests) ==
    [x_neg |-> x_neg, y_neg |-> y_neg, z_neg |-> z_neg, tests |-> tests]

\* the outcomes of the three edge tests that lead to each branch of the loop
EdgeTests ==
    {[a1 |-> FALSE, a2 |-> FALSE, a3 |-> FALSE],
     [a1 |-> TRUE, a2 |-> FALSE, a3 |-> FALSE],
     [a1 |-> TRUE, a2 |-> TRUE, a3 |-> FALSE],
     [a1 |-> TRUE, a2 |-> TRUE, a3 |-> TRUE]}

\* res |= s << i for the two bits s, bits i and i + 1 of res being clear;
\* res is a u32 and i <= 29
OrShifted(res, s, i) == res + s * 2 ^ i

\* the for loop of convert_rot_column_to_network, k counting its passes: the
\* result and the triangle after each pass
RECURSIVE to_network_loop(_, _, _, _, _, _)
to_network_loop(b, v, i, k, res, triangles) ==
    IF i >= b THEN [res |-> res, triangles |-> triangles]
    ELSE LET t == triangles[Len(triangles)]
             temp4 == midpoint(t[1], t[2])
             temp5 == midpoint(t[2], t[3])
             temp6 == midpoint(t[1], t[3])
             test == v.tests[k]
         IN  IF test.a1
             THEN IF test.a2
                  THEN IF test.a3
                       THEN to_network_loop(b, v, i + 2, k + 1, OrShifted(res, 3, i),
                                Append(triangles, <<temp4, temp5, temp6>>))
                       ELSE to_network_loop(b, v, i + 2, k + 1, OrShifted(res, 2, i),
                                Append(triangles, <<temp6, temp5, t[3]>>))
                  ELSE to_network_loop(b, v, i + 2, k + 1, OrShifted(res, 1, i),
                           Append(triangles, <<temp4, t[2], temp5>>))
             ELSE to_network_loop(b, v, i + 2, k + 1, res,
                      Append(triangles, <<t[1], temp4, temp6>>))

\* an encoder that takes bit 1 from y and bit 2 from z
convert_rot_column_y_first(b, v) ==
    LET res == (IF v.x_neg THEN 1 ELSE 0) + (IF v.y_neg THEN 2 ELSE 0)
                  + (IF v.z_neg THEN 4 ELSE 0)
    IN  to_network_loop(b, v, 3, 1, res, <<OctantTable[res + 1]>>)

\* convert_rot_column_to_network
convert_rot_column_to_network(b, v) ==
    LET res == (IF v.x_neg THEN 1 ELSE 0) + (IF v.z_neg THEN 2 ELSE 0)
                  + (IF v.y_neg THEN 4 ELSE 0)
    IN  to_network_loop(b, v, 3, 1, res, <<OctantTable[res + 1]>>)

\* the while loop of convert_rot_column_from_network: the triangle after
\* each pass
RECURSIVE from_network_loop(_, _, _, _)
from_network_loop(b, v, pos, triangles) ==
    IF pos >= b THEN triangles
    ELSE LET t == triangles[Len(triangles)]
             step == (v \div (2 ^ pos)) % 4
             c1 == midpoint(t[1], t[2])
             c2 == midpoint(t[2], t[3])
             c3 == midpoint(t[1], t[2])
             next == CASE step = 0 -> <<t[1], c1, c3>>
                       [] step = 1 -> <<c1, t[2], c2>>
                       [] step = 2 -> <<c3, c2, t[3]>>
                       [] step = 3 -> <<c1, c2, c3>>
         IN  from_network_loop(b, v, pos + 2, Append(triangles, next))

\* convert_rot_column_from_network: the triangles and the vector returned
convert_rot_column_from_network(b, v) ==
    LET start == v % 8
        triangles == from_network_loop(b, v, 3, <<OctantTable[start + 1]>>)
    IN  [triangles |-> triangles,
         value |-> normalized_sum(triangles[Len(triangles)])]

\* the passes of the encoder's loop for width b
Passes(b) == (b - 2) \div 2

\* the widths up to which every sequence of edge tests is tried
MaxRotSteps == 3

\* the widths of a column: 3 .. 9 and the widths of the packets, 25 and 31
RotWidths == (3 .. (3 + 2 * MaxRotSteps)) \cup {25, 31}

\* the sequences of edge tests tried for a width: every one for a small
\* width, the four that repeat one outcome for a large one
TestSequences(b) ==
    IF Passes(b) <= MaxRotSteps THEN [1 .. Passes(b) -> EdgeTests]
    ELSE {[k \in 1 .. Passes(b) |-> e] : e \in EdgeTests}

\* the codec at rest, with nothing encoded
InitRot ==
    /\ RulesIdle
    /\ pc = "write"
    /\ wr = NewWriter([i \in 0 .. (BufLen - 1) |-> 0])
    /\ rd = NewReader
    /\ written = <<>>
    /\ result = [type |-> "none"]

\* convert_rot_column_to_network of a column
ConvertToNetwork ==
    /\ pc = "write"
    /\ \E b \in RotWidths : \E x_neg \in BOOLEAN : \E y_neg \in BOOLEAN :
       \E z_neg \in BOOLEAN : \E tests \in TestSequences(b) :
          LET v == Vector(x_neg, y_neg, z_neg, tests)
              x == convert_rot_column_to_network(b, v)
          IN  result' = [type |-> "to_network", b |-> b, v |-> v, res |-> x.res,
                         triangles |-> x.triangles]
    /\ pc' = "read"
    /\ UNCHANGED <<wr, rd, written>>
    /\ UNCHANGED rulesVars

\* convert_rot_column_from_network of the number the encoder returned
ConvertFromNetwork ==
    /\ pc = "read"
    /\ result.type = "to_network"
    /\ LET x == convert_rot_column_from_network(result.b, result.res)
       IN  result' = [type |-> "from_network", b |-> result.b, v |-> result.res,
                      encoded |-> result.triangles, triangles |-> x.triangles,
                      value |-> x.value]
    /\ pc' = "done"
    /\ UNCHANGED <<wr, rd, written>>
    /\ UNCHANGED rulesVars

NextRot ==
    \/ ConvertToNetwork
    \/ ConvertFromNetwork

RotSpec == InitRot /\ [][NextRot]_vars

----------------------------------------------------------------------------
\* get_position of hqm_game.rs and the fields of a packet it fills

\* i32::MIN
MinI32 == (0 - MaxI32) - 1

\* v as i32: the integer part of v, i32::MIN or i32::MAX when that is
\* outside an i32, 0 for NaN
f32_as_i32(v) ==
    LET e == v.exponent - 127
        m == 2 ^ 23 + v.fraction
    IN  IF v.exponent = 255 /\ v.fraction # 0 THEN 0
        ELSE IF e < 0 THEN 0
        ELSE IF e >= 31 THEN (IF v.sign = 1 THEN MinI32 ELSE MaxI32)
        ELSE LET n == IF e <= 23 THEN m \div (2 ^ (23 - e)) ELSE m * 2 ^ (e - 23)
             IN  IF v.sign = 1 THEN 0 - n ELSE n

\* a get_position whose upper limit is 1 << bits
get_position_wide(bits, v) ==
    LET temp == f32_as_i32(v)
    IN  IF temp < 0 THEN 0
        ELSE IF temp > 2 ^ bits THEN 2 ^ bits
        ELSE temp

\* get_position
get_position(bits, v) ==
    LET temp == f32_as_i32(v)
    IN  IF temp < 0 THEN 0
        ELSE IF temp > 2 ^ bits - 1 THEN 2 ^ bits - 1
        ELSE temp

\* the fields of HQMSkaterPacket and HQMPuckPacket that get_position fills,
\* and the bits argument of each
PacketFields ==
    [pos |-> 17, stick_pos |-> 13, head_rot |-> 16, body_rot |-> 16]

\* floor(log2(h)) for h >= 1
RECURSIVE Log2(_)
Log2(h) == IF h < 2 THEN 0 ELSE 1 + Log2(h \div 2)

\* the f32 that is h / 2, for 1 <= h < 2^24, with the given sign
F32OfHalves(sign, h) ==
    F32(sign, 126 + Log2(h), (h - 2 ^ Log2(h)) * 2 ^ (23 - Log2(h)))

\* the numbers h / 2 passed to get_position, around 0, 1 and the three limits
PositionHalves ==
    {1, 2, 3, 5, 16381, 16382, 16383, 16384, 131069, 131070, 131071, 131072,
     262141, 262142, 262143, 262144, 2000001}

\* the arguments of get_position: the f32 and the real number it is (h / 2,
\* or one of: the smallest subnormal, the f32 next below 2^31, 2^31, the
\* largest f32, infinity, each with a sign, and NaN)
PositionInputs ==
    {[v |-> F32OfHalves(s, h), class |-> "halves", sign |-> s, h |-> h] :
        s \in {0, 1}, h \in PositionHalves}
      \cup {[v |-> F32(s, 0, 0), class |-> "halves", sign |-> s, h |-> 0] : s \in {0, 1}}
      \cup {[v |-> F32(s, 0, 1), class |-> "subnormal", sign |-> s, h |-> 0] : s \in {0, 1}}
      \cup {[v |-> F32(s, 157, 2 ^ 23 - 1), class |-> "below 2^31", sign |-> s, h |-> 0] :
               s \in {0, 1}}
      \cup {[v |-> F32(s, 158, 0), class |-> "2^31", sign |-> s, h |-> 0] : s \in {0, 1}}
      \cup {[v |-> F32(s, 254, 2 ^ 23 - 1), class |-> "largest", sign |-> s, h |-> 0] :
               s \in {0, 1}}
      \cup {[v |-> F32(s, 255, 0), class |-> "infinity", sign |-> s, h |-> 0] : s \in {0, 1}}
      \cup {[v |-> F32(s, 255, 2 ^ 22), class |-> "NaN", sign |-> s, h |-> 0] : s \in {0, 1}}

\* nothing computed yet
InitPosition ==
    /\ RulesIdle
    /\ pc = "write"
    /\ wr = NewWriter([i \in 0 .. (BufLen - 1) |-> 0])
    /\ rd = NewReader
    /\ written = <<>>
    /\ result = [type |-> "none"]

\* get_packet fills one field with get_position; the call before it is kept
GetPosition ==
    /\ pc = "write"
    /\ \E field \in DOMAIN PacketFields : \E x \in PositionInputs :
          result' = [type |-> "get_position", field |-> field,
                     bits |-> PacketFields[field], x |-> x,
                     value |-> get_position(PacketFields[field], x.v),
                     before |-> IF result.type = "get_position"
                                THEN [bits |-> result.bits, x |-> result.x,
                                      value |-> result.value]
                                ELSE [bits |-> 0]]
    /\ UNCHANGED <<pc, wr, rd, written>>
    /\ UNCHANGED rulesVars

NextPosition == GetPosition

PositionSpec == InitPosition /\ [][NextPosition]_vars

----------------------------------------------------------------------------
\* Messages of bit fields and aligned words, read back field by field

\* the u32 with the bytes b1 (lowest) .. b4
U32OfBytes(b1, b2, b3, b4) ==
    U32OrShifted(U32OrShifted(U32OrShifted(U32OrShifted(U32Zero, b1, 0), b2, 8),
                              b3, 16), b4, 24)

\* 0xDEADBEEF
DeadBeef == U32OfBytes(239, 190, 173, 222)

\* the bit fields and the words a message is made of
MessageFields ==
    {[n |-> 3, v |-> U32Of(5)], [n |-> 5, v |-> U32Of(17)], [n |-> 8, v |-> U32Of(255)]}
MessageWords == {DeadBeef, U32Of(1)}

\* a fresh writer; the reads are collected in result
InitMessage ==
    /\ RulesIdle
    /\ pc = "write"
    /\ \E fill \in Fills : wr = NewWriter([i \in 0 .. (BufLen - 1) |-> fill])
    /\ rd = NewReader
    /\ written = <<>>
    /\ result = [type |-> "message", reads |-> <<>>]

MessageWriteBits ==
    /\ pc = "write"
    /\ Len(written) < MaxOps
    /\ \E f \in MessageFields :
          /\ BitsBefore(wr) + f.n <= ByteBits * BufLen
          /\ wr' = write_bits(wr, f.n, f.v)
          /\ written' = Written("write_bits", f.n, f.v)
    /\ UNCHANGED <<pc, rd, result>>
    /\ UNCHANGED rulesVars

MessageWriteU32Aligned ==
    /\ MayWriteAligned(4)
    /\ \E v \in MessageWords :
          /\ wr' = write_u32_aligned(wr, v)
          /\ written' = Written("write_u32_aligned", 4, v)
    /\ UNCHANGED <<pc, rd, result>>
    /\ UNCHANGED rulesVars

\* a reader over the message makes the read that matches the next field:
\* read_bits(n) or read_u32_aligned()
MessageRead ==
    /\ pc \in {"write", "read"}
    /\ Len(result.reads) < Len(written)
    /\ LET f == written[Len(result.reads) + 1]
           r == IF f.op = "write_bits" THEN read_bits(rd, wr.buf, f.n)
                ELSE read_u32_aligned(rd, wr.buf)
       IN  /\ rd' = r.rd
           /\ result' = [result EXCEPT !.reads =
                            Append(@, [value |-> r.value, end |-> Cursor(r.rd)])]
    /\ pc' = "read"
    /\ UNCHANGED <<wr, written>>
    /\ UNCHANGED rulesVars

NextMessage ==
    \/ MessageWriteBits
    \/ MessageWriteU32Aligned
    \/ MessageRead

MessageSpec == InitMessage /\ [][NextMessage]_vars

----------------------------------------------------------------------------
\* The team switch timer: the lobby seen from player 0, who may hold any
\* combination of the join-red, join-blue and spectate keys on every tick,
\* while player 1 may ask for Red. elapsed counts the ticks since player 0's
\* skater was removed by the spectate key (SwitchTime + 1: no removal in the
\* last SwitchTime ticks); last keeps the keys player 0 held on the tick. A
\* countdown of the game is followed for MaxJoinTicks ticks.

SwitchKeys ==
    {r + b + s : r \in {0, KeyJoinRed}, b \in {0, KeyJoinBlue}, s \in {0, KeySpectate}}

SwitchInputs ==
    {keys \in [PlayerIds -> SwitchKeys] : keys[1] \in {0, KeyJoinRed}}

InitSwitch ==
    /\ CodecIdle
    /\ attempts = ConfiguredAttempts
    /\ team_max \in TeamMaxValues
    /\ status = StatusPause
    /\ game = create_game
    /\ players = [p \in PlayerIds |-> Player(0)]
    /\ pc = "before_tick"
    /\ local = [in_zone |-> "Red", round |-> 0]
    /\ elapsed = SwitchTime + 1
    /\ last = [type |-> "new", keys |-> 0]

\* before_tick
SwitchTick ==
    /\ pc = "before_tick"
    /\ status.tag = "Pause"
    /\ game.time > PauseTime - MaxJoinTicks
    /\ \E keys \in SwitchInputs :
          LET r == update_players(game.objects, players, keys)
          IN  /\ game' = [game EXCEPT !.objects = r.objects]
              /\ players' = r.players
              /\ elapsed' = IF has_skater(game.objects, 0) /\ spectate(keys[0])
                            THEN 0
                            ELSE IF elapsed >= SwitchTime THEN SwitchTime + 1
                            ELSE elapsed + 1
              /\ last' = [type |-> "update_players", keys |-> keys[0]]
    /\ pc' = "after_tick"
    /\ UNCHANGED <<attempts, team_max, status, local>>
    /\ UNCHANGED codecVars

\* after_tick, status Pause
SwitchAfterTick ==
    /\ pc = "after_tick"
    /\ status.tag = "Pause"
    /\ LET r == pause_tick(Behaviour)
       IN  /\ status' = r.status
           /\ game' = r.game
    /\ pc' = "before_tick"
    /\ UNCHANGED <<attempts, team_max, players, local, elapsed, last>>
    /\ UNCHANGED codecVars

NextSwitch ==
    \/ SwitchTick
    \/ SwitchAfterTick

SwitchSpec == InitSwitch /\ [][NextSwitch]_vars

----------------------------------------------------------------------------
\* get_slice. A writer is made over a buffer that already holds bytes, takes
\* up to MaxOps writes of any kind (fields of 0 to 32 bits whose value may
\* have bits set above the field, positions, aligned bytes and words) and
\* hands out its slice. written keeps the writes; result keeps the slice.

\* HQMMessageWriter::get_bytes_written
get_bytes_written(w) == IF w.bit_pos > 0 THEN w.pos + 1 ELSE w.pos

\* HQMMessageWriter::get_slice: &buf[0..size]
get_slice(w) == [i \in 0 .. (get_bytes_written(w) - 1) |-> w.buf[i]]

SliceWidths == {0, 3, 8, 13, 32}
SlicePosWidths == {5}

\* all 32 bits set, and every third bit of the field set
SliceValues(n) ==
    {U32Ones(WordBits), [i \in BitIndex |-> IF i < n /\ i % 3 = 0 THEN 1 ELSE 0]}

\* what the caller's buffer may hold before the writer gets it: one byte
\* everywhere, or a different byte at every index
PriorContents ==
    {[i \in 0 .. (BufLen - 1) |-> fill] : fill \in Fills}
        \cup {[i \in 0 .. (BufLen - 1) |-> (37 * i + 90) % 256]}

InitSlice ==
    /\ RulesIdle
    /\ pc = "write"
    /\ \E buf \in PriorContents : wr = NewWriter(buf)
    /\ rd = NewReader
    /\ written = <<>>
    /\ result = [type |-> "none"]

SliceWriteBits ==
    /\ pc = "write"
    /\ Len(written) < MaxOps
    /\ \E n \in SliceWidths :
          /\ BitsBefore(wr) + n <= ByteBits * BufLen
          /\ \E v \in SliceValues(n) :
                /\ wr' = write_bits(wr, n, v)
                /\ written' = Written("write_bits", n, v)
    /\ UNCHANGED <<pc, rd, result>>
    /\ UNCHANGED rulesVars

SliceWritePos ==
    /\ pc = "write"
    /\ Len(written) < MaxOps
    /\ \E n \in SlicePosWidths :
          /\ BitsBefore(wr) + 2 + n <= ByteBits * BufLen
          /\ \E v \in SliceValues(n) :
                /\ wr' = write_pos(wr, n, v)
                /\ written' = Written("write_pos", n, v)
    /\ UNCHANGED <<pc, rd, result>>
    /\ UNCHANGED rulesVars

GetSlice ==
    /\ pc = "write"
    /\ result' = [type |-> "slice", bytes |-> get_slice(wr)]
    /\ pc' = "done"
    /\ UNCHANGED <<wr, rd, written>>
    /\ UNCHANGED rulesVars

NextSlice ==
    \/ SliceWriteBits
    \/ SliceWritePos
    \/ WriteByteAligned
    \/ WriteBytesAligned
    \/ WriteBytesAlignedPadded
    \/ WriteU32Aligned
    \/ WriteF32Aligned
    \/ GetSlice

SliceSpec == InitSlice /\ [][NextSlice]_vars

----------------------------------------------------------------------------
\* Properties of the rules state machine

\* C3: in status Game with goal_scored = false, handling PuckEnteredNet{team}
\* adds 1 to that team's score and leaves the other score alone, appends one
\* goal message for the team, and either sets goal_scored with a break of 300
\* ticks or, when the game ends, moves to GameOver with a break of 500 ticks
C3_GoalCounted ==
    [][\A t \in Teams :
        (/\ pc = "events" /\ pc' = "events" /\ last' = PuckEnteredNet(t)
         /\ status.tag = "Game" /\ ~status.goal_scored)
        => /\ game'.red_score = game.red_score + (IF t = "Red" THEN 1 ELSE 0)
           /\ game'.blue_score = game.blue_score + (IF t = "Blue" THEN 1 ELSE 0)
           /\ game'.global_messages = game.global_messages (+) SetToBag({GoalMessage(t)})
           /\ \/ /\ status'.tag = "Game" /\ status'.goal_scored
                 /\ game'.time_break = GoalBreak
              \/ /\ status'.tag = "GameOver"
                 /\ game'.time_break = GameOverBreak /\ game'.game_over
      ]_vars

\* a Blue goal was just counted and the break of 300 ticks started
C3_Witness ==
    /\ last = PuckEnteredNet("Blue")
    /\ status.tag = "Game" /\ status.goal_scored
    /\ game.blue_score = 1 /\ game.red_score = 0
    /\ game.time_break = GoalBreak

\* a goal was just counted that ended the game
C3_WitnessGameOver ==
    /\ last = PuckEnteredNet("Red")
    /\ status.tag = "GameOver"
    /\ game.red_score = 1
    /\ game.time_break = GameOverBreak

\* C4: in status Game, PuckEnteredOffensiveZone{team} hands the attempt to the
\* other team T: nothing changes when in_zone is T already; otherwise in_zone
\* becomes T, game.time restarts at 2000 and round grows by 1 exactly when T
\* is Red
C4_ZoneEntry ==
    [][\A t \in Teams :
        (/\ pc = "events" /\ pc' = "events" /\ last' = PuckEnteredOffensiveZone(t)
         /\ status.tag = "Game")
        => LET T == get_other_team(t)
           IN  IF status.in_zone = T
               THEN status' = status /\ game' = game
               ELSE /\ status'.tag = "Game"
                    /\ status'.in_zone = T
                    /\ status'.round = status.round + (IF T = "Red" THEN 1 ELSE 0)
                    /\ status'.goal_scored = status.goal_scored
                    /\ game' = [game EXCEPT !.time = AttemptTime]
      ]_vars

\* the puck entered Blue's offensive zone in the middle of Blue's attempt, so
\* the attempt went to Red and a round was counted
C4_Witness ==
    /\ pc = "events"
    /\ last = PuckEnteredOffensiveZone("Blue")
    /\ status.tag = "Game" /\ status.in_zone = "Red" /\ status.round = 1
    /\ local.in_zone = "Blue" /\ local.round = 0
    /\ game.time = AttemptTime

\* the leading team's margin exceeds the attempts the trailing team has left,
\* Red having taken round attempts (one more once the attempt is Blue's),
\* Blue round attempts, out of max(attempts, Red's attempts taken)
Decided(st, g) ==
    LET red_taken == st.round + (IF st.in_zone = "Blue" THEN 1 ELSE 0)
        blue_taken == st.round
        quota == Max(attempts, red_taken)
    IN  \/ g.red_score - g.blue_score > quota - blue_taken
        \/ g.blue_score - g.red_score > quota - red_taken

PuckSlots(objects) == {i \in Slots : objects[i].kind = "Puck"}

\* the world holds exactly one puck, and it lies at pos
OnePuckAt(objects, pos) ==
    \E i \in Slots : PuckSlots(objects) = {i} /\ objects[i] = ObjPuck(i, pos)

\* the skaters of the world, slot by slot
Skaters(objects) ==
    [i \in Slots |-> IF objects[i].kind = "Player" THEN objects[i] ELSE ObjNone]

\* C5: every change of in_zone and every increment of round is followed by
\* check_ending within the same tick, so a tick never ends in status Game
\* with the leading margin above the trailing team's remaining attempts
C5_DecidedGameEndsWithinTick ==
    (pc = "before_tick" /\ status.tag = "Game") => ~Decided(status, game)

\* C8: during a goal break a tick only takes 1 off time_break, which started
\* at 300; the tick that brings it to 0, the 300th after the goal, places the
\* puck for in_zone, restarts game.time at 2000 and clears goal_scored, with
\* in_zone and round as they were
C8_GoalBreak ==
    /\ [](status.tag = "Game" /\ status.goal_scored /\ pc # "events"
            => game.time_break = GoalBreak - elapsed /\ game.time_break >= 1)
    /\ [][(pc = "after_tick" /\ status.tag = "Game" /\ status.goal_scored)
            => /\ pc' = "before_tick"
               /\ IF game.time_break > 1
                  THEN /\ status' = status
                       /\ game' = [game EXCEPT !.time_break = @ - 1]
                  ELSE /\ elapsed = GoalBreak - 1
                       /\ status' = StatusGame(status.in_zone, status.round, FALSE)
                       /\ game'.time = AttemptTime
                       /\ game'.time_break = 0
                       /\ OnePuckAt(game'.objects, PuckPos(status.in_zone))
                       /\ Skaters(game'.objects) = Skaters(game.objects)
                       /\ game'.red_score = game.red_score
                       /\ game'.blue_score = game.blue_score
         ]_vars

\* a goal break just ended with the puck placed for Blue
C8_Witness ==
    /\ last = [type |-> "goal_break_end"]
    /\ status = StatusGame("Blue", 0, FALSE)
    /\ game.time = AttemptTime
    /\ OnePuckAt(game.objects, PuckPos("Blue"))

\* C9: the attempt clock of status Game takes 1 off game.time; when that
\* brings it to 0 check_ending is evaluated first: a decided game becomes
\* GameOver and no puck is placed, otherwise the puck is placed for the team
\* opposite to in_zone, which becomes in_zone with game.time = 2000
C9_AttemptClock ==
    [][(/\ pc = "events" /\ pc' = "before_tick"
        /\ status.tag = "Game" /\ ~status.goal_scored)
        => IF game.time > 1
           THEN status' = status /\ game' = [game EXCEPT !.time = @ - 1]
           ELSE IF Decided(status, game)
                THEN /\ status' = StatusGameOver
                     /\ game'.objects = game.objects
                     /\ game'.time = 0
                ELSE /\ status'.tag = "Game"
                     /\ status'.in_zone = get_other_team(status.in_zone)
                     /\ game'.time = AttemptTime
                     /\ OnePuckAt(game'.objects,
                                  PuckPos(get_other_team(status.in_zone)))
                     /\ Skaters(game'.objects) = Skaters(game.objects)
      ]_vars

\* Red's attempt clock just ran out and the puck was placed for Blue
C9_Witness ==
    /\ last = [type |-> "expiry"]
    /\ status.tag = "Game" /\ status.in_zone = "Blue" /\ ~status.goal_scored
    /\ game.time = AttemptTime
    /\ OnePuckAt(game.objects, PuckPos("Blue"))

\* the attempt clock just ran out on a decided game
C9_WitnessGameOver ==
    /\ last = [type |-> "expiry"]
    /\ status.tag = "GameOver"
    /\ game.time = 0

----------------------------------------------------------------------------
\* Properties of the lobby

\* C6: in status Pause a tick with a team without skaters puts game.time back
\* to 1000, a tick with both teams present takes 1 off it, and the status
\* leaves Pause exactly on the tick that brings game.time to 0, which is the
\* 1000th tick in a row with both teams present
C6_PauseCountdown ==
    /\ [](status.tag = "Pause"
            => game.time >= 1 /\ game.time = PauseTime - elapsed)
    /\ [][(pc = "after_tick" /\ status.tag = "Pause")
            => IF ~both_teams_present(game.objects)
               THEN /\ status' = status
                    /\ game' = [game EXCEPT !.time = PauseTime]
                    /\ elapsed' = 0
               ELSE IF game.time > 1
                    THEN /\ status' = status
                         /\ game' = [game EXCEPT !.time = @ - 1]
                         /\ elapsed' = elapsed + 1
                    ELSE /\ status'.tag # "Pause"
                         /\ elapsed = PauseTime - 1
         ]_vars

\* a countdown that had run for 400 ticks was just restarted because a team
\* lost its last skater
C6_WitnessRestart ==
    /\ last = [type |-> "restart", from |-> PauseTime - 400]
    /\ status.tag = "Pause"
    /\ game.time = PauseTime /\ elapsed = 0

\* the countdown just ran out and the game started
C6_Witness ==
    /\ last = [type |-> "init"]
    /\ status.tag = "Game"

\* C7: when the Pause countdown runs out, init sets period = 1 and
\* game.time = 2000, leaves exactly one puck in the world, at (W/2, 0.5, 55),
\* and the status becomes Game{in_zone = Red, round = 0, goal_scored = false}
C7_Init ==
    [][(pc = "after_tick" /\ status.tag = "Pause" /\ status'.tag # "Pause")
        => /\ game'.period = 1
           /\ game'.time = AttemptTime
           /\ OnePuckAt(game'.objects, <<RinkWidth, 1, 110>>)
           /\ status' = StatusGame("Red", 0, FALSE)
      ]_vars

\* init just ran: the game is in Red's first attempt with the puck in place
C7_Witness ==
    /\ last = [type |-> "init"]
    /\ status = StatusGame("Red", 0, FALSE)
    /\ game.period = 1 /\ game.time = AttemptTime
    /\ OnePuckAt(game.objects, <<RinkWidth, 1, 110>>)

----------------------------------------------------------------------------
\* C2: check_ending ends the game exactly when the leading team's margin is
\* greater than the attempts the trailing team has left (Red has taken round
\* attempts plus one when the attempt is Blue's, Blue has taken round, and the
\* quota is the larger of the configured attempts and Red's attempts taken);
\* otherwise it changes nothing. With five attempts a 1-1 game after rounds 0
\* and 1 keeps running, and a 5-0 lead of Red at round 4 ends the game.
C2_CheckEnding ==
    [][(pc = "check_ending" /\ pc' = "checked" /\ status.tag = "Game") =>
          /\ IF Decided(status, game)
             THEN /\ status' = StatusGameOver
                  /\ game' = [game EXCEPT !.game_over = TRUE,
                                          !.time_break = GameOverBreak]
             ELSE /\ status' = status
                  /\ game' = game
          /\ (attempts = 5 /\ game.red_score = 1 /\ game.blue_score = 1
                 /\ status.round \in {1, 2}) => status' = status
          /\ (attempts = 5 /\ game.red_score = 5 /\ game.blue_score = 0
                 /\ status.round = 4) => status' = StatusGameOver
      ]_vars

\* with five attempts, Red leading 5-0 at round 4, check_ending ended the game
C2_Witness ==
    /\ pc = "checked"
    /\ attempts = 5
    /\ last = [type |-> "check_ending", status |-> StatusGame("Red", 4, TRUE)]
    /\ game.red_score = 5 /\ game.blue_score = 0
    /\ status = StatusGameOver
    /\ game.game_over /\ game.time_break = GameOverBreak

\* with five attempts, 1-1 after rounds 0 and 1, check_ending left the game
\* running
C2_WitnessRunning ==
    /\ pc = "checked"
    /\ attempts = 5
    /\ last = [type |-> "check_ending", status |-> StatusGame("Red", 2, FALSE)]
    /\ game.red_score = 1 /\ game.blue_score = 1
    /\ status = StatusGame("Red", 2, FALSE)
    /\ ~game.game_over

----------------------------------------------------------------------------
\* Properties of the bit codec

\* C1: for every width n in 1 .. 32, every value v below 2^n and every
\* starting cursor, read_bits(n) started at the cursor write_bits(n, v)
\* started at returns v
C1_RoundTrip ==
    result.type = "read_bits"
        => /\ result.read_at = result.written_at
           /\ result.value = result.expected

\* a 32-bit field written and read back across five bytes, from bit 7 of byte 1
C1_Witness ==
    /\ result.type = "read_bits"
    /\ result.n = WordBits
    /\ result.written_at = [pos |-> 1, bit_pos |-> 7]
    /\ result.read_at = [pos |-> 1, bit_pos |-> 7]
    /\ result.expected = U32Ones(WordBits)
    /\ result.value = U32Ones(WordBits)
    /\ rd = [pos |-> 5, bit_pos |-> 7]

----------------------------------------------------------------------------
\* Properties of the object slots

\* the step is a call of create_puck_object or create_player_object
Creation ==
    /\ pc = "world"
    /\ last'.type \in {"create_puck_object", "create_player_object"}

EmptySlots(objects) == {i \in Slots : objects[i].kind = "None"}

\* C11: the slot array always has exactly 32 entries; a creation with an
\* empty slot left puts the new object in the lowest empty slot, returns that
\* index, stores it in the object's index field and leaves every other slot
\* as it was
C11_LowestEmptySlot ==
    /\ [](DOMAIN game.objects = 0 .. 31)
    /\ [][(Creation /\ EmptySlots(game.objects) # {})
            => LET i == last'.slot
               IN  /\ i \in EmptySlots(game.objects)
                   /\ \A j \in EmptySlots(game.objects) : i <= j
                   /\ game'.objects[i].kind =
                         (IF last'.type = "create_puck_object" THEN "Puck" ELSE "Player")
                   /\ game'.objects[i].index = i
                   /\ \A j \in Slots \ {i} : game'.objects[j] = game.objects[j]
         ]_vars

\* a skater was just created in slot 3, a hole below the pucks of slots 4 and 5
C11_Witness ==
    /\ last = [type |-> "create_player_object", player |-> 0, slot |-> 3]
    /\ game.objects[3].kind = "Player" /\ game.objects[3].index = 3
    /\ game.objects[4].kind = "Puck" /\ game.objects[5].kind = "Puck"
    /\ game.objects[6].kind = "None"

\* C12: with all 32 slots occupied a creation returns none and changes no slot
C12_FullWorld ==
    [][(Creation /\ EmptySlots(game.objects) = {})
          => /\ last'.slot = NoSlot
             /\ game'.objects = game.objects
      ]_vars

\* a puck was asked for with all 32 slots occupied, and none was returned
C12_Witness ==
    /\ last = [type |-> "create_puck_object", slot |-> NoSlot]
    /\ EmptySlots(game.objects) = {}
    /\ \E i \in Slots : game.objects[i].kind = "Player"

----------------------------------------------------------------------------
\* Properties of joining

PlayerSlots(objects) == {i \in Slots : objects[i].kind = "Player"}

\* C13: after any sequence of ticks no two skaters in the slot array carry
\* the same connected_player_index
C13_OneSkaterPerPlayer ==
    \A i \in PlayerSlots(game.objects) : \A k \in PlayerSlots(game.objects) :
        game.objects[i].connected_player_index = game.objects[k].connected_player_index
            => i = k

\* init has lined up the two skaters; player 0 is not in slot 0, so it joined
\* after player 1
C13_Witness ==
    /\ last = [type |-> "init"]
    /\ Cardinality(PlayerSlots(game.objects)) = 2
    /\ \A p \in PlayerIds : has_skater(game.objects, p)
    /\ skater_slot(game.objects, 0) # 0

\* the players of a list
Elems(list) == {list[k] : k \in 1 .. Len(list)}

\* the places a team has left once the spectating players of the tick are
\* taken out of the slot array
FreePlaces(objects, spectating, team) ==
    team_max - Cardinality({i \in PlayerSlots(objects) :
                               /\ objects[i].team = team
                               /\ objects[i].connected_player_index \notin Elems(spectating)})

\* the players of a list that have a skater
Admitted(objects, list) == {p \in Elems(list) : has_skater(objects, p)}

\* C14: no team ever has more than team_max skaters; in every before_tick,
\* of the players asking for a team the ones with the lowest indices get a
\* skater of that team, as many as the team has places left after the
\* spectate moves of the tick, the others get none, and both slices of
\* admitted joiners are in bounds
C14_TeamMax ==
    /\ [](\A team \in Teams : player_count(game.objects, team) <= team_max)
    /\ [][(pc = "before_tick" /\ pc' = "after_tick")
            => /\ last'.in_bounds
               /\ \A team \in Teams :
                     LET list == IF team = "Red" THEN last'.joining_red
                                 ELSE last'.joining_blue
                         adm == Admitted(game'.objects, list)
                     IN  /\ Cardinality(adm) =
                               Min(Len(list),
                                   FreePlaces(game.objects, last'.spectating, team))
                         /\ \A p \in adm : \A q \in Elems(list) \ adm : p < q
                         /\ \A p \in adm :
                               game'.objects[skater_slot(game'.objects, p)].team = team
                         /\ player_count(game'.objects, team) <= team_max
         ]_vars

\* three players asked for Red with two places free: players 0 and 1 got a
\* skater, player 2 none
C14_Witness ==
    /\ team_max = 2
    /\ pc = "after_tick"
    /\ last.type = "before_tick"
    /\ last.joining_red = <<0, 1, 2>>
    /\ Admitted(game.objects, last.joining_red) = {0, 1}
    /\ player_count(game.objects, "Red") = 2

\* player 0 left the only Red place in the tick in which players 1 and 2 asked
\* for it: player 1 got it
C14_WitnessSpectate ==
    /\ team_max = 1
    /\ pc = "after_tick"
    /\ last.type = "before_tick"
    /\ last.spectating = <<0>>
    /\ last.joining_red = <<1, 2>>
    /\ Admitted(game.objects, last.joining_red) = {1}

----------------------------------------------------------------------------
\* Properties of the commands

\* the step handles a reset or resetgame command
ResetCommand ==
    /\ last'.type = "handle_command"
    /\ last'.cmd \in {"reset", "resetgame"}
    /\ pc = "before_tick" /\ pc' = "before_tick"

\* C15: a reset or resetgame command of an admin player replaces the game by
\* a fresh one (status Pause, game.time 1000, scores 0, no objects) whose log
\* holds the "Game reset by" message and nothing else; of a player that is
\* not admin it only sends the denial and leaves game and status as they
\* were; for an empty player slot it does nothing
C15_Reset ==
    [][ResetCommand =>
          LET p == last'.player_index
          IN  IF p \notin DOMAIN players \/ ~players[p].connected
              THEN game' = game /\ status' = status /\ last'.denied = {}
              ELSE IF p \in AdminPlayers
              THEN /\ status' = StatusPause
                   /\ game'.time = 1000
                   /\ game'.red_score = 0 /\ game'.blue_score = 0
                   /\ game'.period = 0 /\ ~game'.game_over
                   /\ \A i \in Slots : game'.objects[i].kind = "None"
                   /\ game'.global_messages = SetToBag({ResetMessage(p)})
                   /\ last'.denied = {}
              ELSE game' = game /\ status' = status /\ last'.denied = {p}
      ]_vars

\* the admin has reset a running game with a goal on the board
C15_Witness ==
    /\ last.type = "handle_command" /\ last.cmd = "resetgame"
    /\ last.player_index = 0
    /\ last.from = [tag |-> "Game", goals |-> 1]
    /\ status = StatusPause /\ game.time = 1000

\* player 1, not an admin, was denied the reset of a game that is over
C15_WitnessDenied ==
    /\ last.type = "handle_command" /\ last.cmd = "reset"
    /\ last.player_index = 1 /\ last.denied = {1}
    /\ status = StatusGameOver /\ game.game_over

\* a reset for the empty player slot 2 in a running game
C15_WitnessEmptySlot ==
    /\ last.type = "handle_command" /\ last.cmd = "reset"
    /\ last.player_index = 2 /\ last.denied = {}
    /\ status.tag = "Game"

----------------------------------------------------------------------------
\* Properties of the aligned operations

AlignedWrites ==
    {"write_byte_aligned", "write_bytes_aligned", "write_bytes_aligned_padded",
     "write_u32_aligned", "write_f32_aligned"}

\* the cursor an aligned operation of len bytes leaves, started at cursor c
AfterAligned(c, len) ==
    [pos |-> (IF c.bit_pos # 0 THEN c.pos + 1 ELSE c.pos) + len, bit_pos |-> 0]

\* the bytes an aligned write puts into the buffer, lowest byte first
RECURSIVE LittleEndian(_, _)
LittleEndian(x, k) ==
    IF k = 4 THEN <<>>
    ELSE <<x[8 * k] + 2 * x[8 * k + 1] + 4 * x[8 * k + 2] + 8 * x[8 * k + 3]
           + 16 * x[8 * k + 4] + 32 * x[8 * k + 5] + 64 * x[8 * k + 6]
           + 128 * x[8 * k + 7]>> \o LittleEndian(x, k + 1)

F32Bits(f) ==
    [i \in BitIndex |->
        IF i = 31 THEN f.sign
        ELSE IF i >= 23 THEN (f.exponent \div (2 ^ (i - 23))) % 2
        ELSE (f.fraction \div (2 ^ i)) % 2]

BytesOf(f) ==
    CASE f.op = "write_byte_aligned" -> <<f.v>>
      [] f.op = "write_bytes_aligned" -> f.v
      [] f.op = "write_bytes_aligned_padded" ->
            [k \in 1 .. f.n |-> IF k <= Len(f.v) THEN f.v[k] ELSE 0]
      [] f.op = "write_u32_aligned" -> LittleEndian(f.v, 0)
      [] f.op = "write_f32_aligned" -> LittleEndian(F32Bits(f.v), 0)

\* the value the matching read has to return
Expected(op, f) ==
    CASE op = "read_bytes_aligned" -> BytesOf(f)
      [] op = "read_u16_aligned" -> f.v[1] + 256 * f.v[2]
      [] OTHER -> f.v

\* a write was taken in this step
WriteStep == Len(written') = Len(written) + 1

\* a read was taken in this step
ReadStep == pc' = "read" /\ Len(written') = Len(written) - 1

\* C16: an aligned write or read moves the cursor to the next byte boundary
\* exactly when the bit offset is not 0 and then transfers whole bytes,
\* lowest byte first; the matching reads of a sequence of write_bits and
\* aligned writes return the written values in order, and every read leaves
\* the reader's cursor where the write left the writer's
C16_AlignedRoundTrip ==
    [][/\ WriteStep =>
            LET f == written'[Len(written')]
            IN  f.op \in AlignedWrites =>
                   /\ Cursor(wr') = AfterAligned(Cursor(wr), f.n)
                   /\ \A k \in 1 .. f.n :
                         wr'.buf[Cursor(wr').pos - f.n + k - 1] = BytesOf(f)[k]
                   /\ \A i \in 0 .. (BufLen - 1) :
                         (i < Cursor(wr').pos - f.n \/ i >= Cursor(wr').pos)
                            => wr'.buf[i] = wr.buf[i]
       /\ ReadStep =>
            LET f == Head(written)
            IN  /\ result'.value = Expected(result'.type, f)
                /\ Cursor(rd) = f.at
                /\ Cursor(rd') = f.end
                /\ f.op \in AlignedWrites => Cursor(rd') = AfterAligned(Cursor(rd), f.n)
      ]_vars

\* a u32 written after 7 bits, from byte 1 on, was read back at the writer's
\* cursor, and a 12-bit field after it
C16_Witness ==
    /\ result.type = "read_bits"
    /\ result.write.at = [pos |-> 5, bit_pos |-> 0]
    /\ Cursor(rd) = [pos |-> 6, bit_pos |-> 4]
    /\ result.value = result.write.v
    /\ wr.buf[0] = 127 /\ wr.buf[1] = 73 /\ wr.buf[4] = 73

\* C17: the bit offset of writer and reader is always in 0..7; it is 0 right
\* after every aligned operation and after every write_bits or read_bits
\* that ends on a byte boundary
C17_BitOffset ==
    /\ [](wr.bit_pos \in 0 .. 7 /\ rd.bit_pos \in 0 .. 7)
    /\ [][/\ WriteStep =>
               LET f == written'[Len(written')]
               IN  /\ f.op \in AlignedWrites => wr'.bit_pos = 0
                   /\ (f.op = "write_bits" /\ (BitsBefore(wr) + f.n) % 8 = 0)
                         => wr'.bit_pos = 0
          /\ ReadStep =>
               LET f == Head(written)
               IN  /\ result'.type # "read_bits" => rd'.bit_pos = 0
                   /\ (result'.type = "read_bits" /\ (BitsBefore(rd) + f.n) % 8 = 0)
                         => rd'.bit_pos = 0
         ]_vars

\* 7 bits written at bit offset 1 ended on the byte boundary, and so did the
\* read_bits that replayed them
C17_Witness ==
    /\ result.type = "read_bits"
    /\ result.write.n = 7
    /\ result.read_at = [pos |-> 0, bit_pos |-> 1]
    /\ Cursor(rd) = [pos |-> 1, bit_pos |-> 0]
    /\ result.write.end = [pos |-> 1, bit_pos |-> 0]

\* an aligned read started at bit offset 4 and left the offset at 0
C17_WitnessAligned ==
    /\ result.type = "read_u32_aligned"
    /\ result.read_at.bit_pos = 4
    /\ rd.bit_pos = 0

----------------------------------------------------------------------------
\* Properties of read_bits_signed and read_pos

\* the n-bit two's-complement reading of a, as a number, for n < 32
TwosComplement(a, n) ==
    LET u == U32Number(a, 0, n)
    IN  IF u < 2 ^ (n - 1) THEN u ELSE (u - 2 ^ (n - 1)) - 2 ^ (n - 1)

\* C18: for every width n in 1..32 read_bits_signed(n) returns, without a
\* panic, the n-bit two's-complement reading of the n bits a it consumed:
\* a when a < 2^(n-1) and a - 2^n otherwise, which is a sign-extended to 32
\* bits
C18_ReadBitsSigned ==
    result.type = "read_bits_signed"
        => /\ ~result.panic
           /\ result.value =
                 [i \in BitIndex |-> IF i < result.n THEN result.a[i]
                                     ELSE result.a[result.n - 1]]
           /\ result.n < 32 => I32Number(result.value) = TwosComplement(result.a, result.n)

\* bit k of a buffer, bit 0 being the lowest bit of byte 0
BufBit(buf, k) == (buf[k \div 8] \div (2 ^ (k % 8))) % 2

\* C19: write_pos(b, v) writes the header bits 11 and then v in b bits, and
\* read_pos(b, old) on them returns v, whatever old is and also without one
C19_WritePosReadPos ==
    (result.type = "read_pos" /\ result.write.op = "write_pos")
        => LET f == result.write
               s == BitsBefore(f.at)
           IN  /\ BufBit(wr.buf, s) = 1 /\ BufBit(wr.buf, s + 1) = 1
               /\ \A i \in 0 .. (f.width - 1) : BufBit(wr.buf, s + 2 + i) = f.v[i]
               /\ BitsBefore(wr) = s + 2 + f.width
               /\ ~result.panic
               /\ result.value = f.v
               /\ BitsBefore(rd) = BitsBefore(wr)

\* a 17-bit position written at bit offset 5 was read back without an old
\* value
C19_Witness ==
    /\ result.type = "read_pos" /\ result.write.op = "write_pos"
    /\ result.write.width = 17
    /\ result.write.at = [pos |-> 0, bit_pos |-> 5]
    /\ result.old_value = NoValue
    /\ result.value = U32Ones(17)
    /\ ~result.panic

\* a 32-bit position with bit 31 set was read back with an old value
C19_WitnessWord ==
    /\ result.type = "read_pos" /\ result.write.op = "write_pos"
    /\ result.write.width = 32
    /\ result.old_value = SomeValue(U32Of(100000))
    /\ result.value = U32Ones(32)

\* old + d for a u32 old and a small number d, computed on the two halves of
\* old: whether the sum is below 0, whether it is above u32::MAX, its bits
Sum(old, d) ==
    LET lo == U32Number(old, 0, 16)
        hi == U32Number(old, 16, 32)
        carry == IF lo + d < 0 THEN -1 ELSE IF lo + d >= 65536 THEN 1 ELSE 0
        lo2 == lo + d - 65536 * carry
        hi2 == hi + carry
    IN  [below |-> hi2 < 0, above |-> hi2 >= 65536,
         bits |-> [i \in BitIndex |->
                     IF i < 16 THEN (lo2 \div (2 ^ i)) % 2
                     ELSE (hi2 \div (2 ^ (i - 16))) % 2]]

\* C20: with header 0, 1 or 2 read_pos reads a signed delta of 3, 6 or 12
\* bits and returns old + delta, for every supplied old with old + delta >= 0
\* (and within a u32); with header 3 it returns the next b bits and ignores
\* old
C20_ReadPos ==
    result.type = "read_pos"
        => LET f == result.write
               s == BitsBefore(f.at)
           IN  /\ f.header = 3
                     => /\ ~result.panic
                        /\ result.value = f.v
                        /\ BitsBefore(rd) = s + 2 + result.b
               /\ (f.header # 3 /\ result.old_value.some)
                     => LET width == CASE f.header = 0 -> 3 [] f.header = 1 -> 6
                                       [] f.header = 2 -> 12
                            sum == Sum(result.old_value.value, TwosComplement(f.v, width))
                        IN  (~sum.below /\ ~sum.above)
                               => /\ ~result.panic
                                  /\ result.value = sum.bits
                                  /\ BitsBefore(rd) = s + 2 + width

\* the read_pos(17, Some(100000)) of a delta record with the given header
\* whose delta field holds the bits of 5
ReadDeltaFive(header) ==
    /\ result.type = "read_pos"
    /\ result.write.op = "delta"
    /\ result.write.header = header
    /\ result.write.v = U32Of(5)
    /\ result.b = 17
    /\ result.old_value = SomeValue(U32Of(100000))

\* C21 as stated: read_pos(17, old = 100000) on a 3-bit-delta record (header
\* 00) that carries 5 returns 100005
C21_ThreeBitDelta ==
    ReadDeltaFive(0) => (~result.panic /\ result.value = U32Of(100005))

\* C21 as amended: read_pos(17, old = 100000) returns 100005 from the
\* 6-bit-delta record (header 01) that carries 5, and from a 3-bit-delta
\* record (header 00) it returns a value in 99996 .. 100003: the 3 bits 101
\* are the delta -3 and give 99997
C21_SixBitDelta ==
    /\ ReadDeltaFive(1) => (~result.panic /\ result.value = U32Of(100005))
    /\ ReadDeltaFive(0) => (~result.panic /\ result.value = U32Of(99997))
    /\ (result.type = "read_pos" /\ result.write.op = "delta"
            /\ result.write.header = 0
            /\ result.old_value = SomeValue(U32Of(100000)))
          => /\ ~result.panic
             /\ U32Number(result.value, 0, 31) \in 99996 .. 100003

\* the 6-bit-delta record carrying 5 was read at old = 100000
C21_Witness ==
    ReadDeltaFive(1) /\ result.value = U32Of(100005)

\* Properties of reads of a short datagram

\* the bits a read of the datagram needs, counted from the start of the
\* datagram: read_pos needs its header and then what the header announces
NeededBits(call, at, buf) ==
    LET s == BitsBefore(at)
        a == ByteBits * ((s + ByteBits - 1) \div ByteBits)
    IN  CASE call.op \in {"read_bits", "read_bits_signed"} -> s + call.b
          [] call.op = "read_pos" ->
                IF s + 2 > ByteBits * Cardinality(DOMAIN buf) THEN s + 2
                ELSE LET h == BufBit(buf, s) + 2 * BufBit(buf, s + 1)
                     IN  s + 2 + (CASE h = 0 -> 3 [] h = 1 -> 6 [] h = 2 -> 12
                                    [] h = 3 -> call.b)
          [] call.op \in AlignedReads -> a + ByteBits * aligned_len(call.op, call.n)

\* the read needed bytes beyond the end of the datagram
PastEnd ==
    /\ result.type = "datagram"
    /\ NeededBits(result.call, result.at, wr.buf) > ByteBits * Cardinality(DOMAIN wr.buf)

\* C22: a read (read_bits, read_bits_signed, read_pos or an aligned read)
\* that needs bytes beyond the end of the buffer ends in a result the caller
\* can handle, never in a panic
C22_DecodeError ==
    PastEnd => ~result.panic

\* a u32 is below 2^b
FitsBits(x, b) == \A i \in BitIndex : i >= b => x[i] = 0

\* C23: read_pos(b, old) on a delta header (0, 1 or 2) does not return when
\* old + delta is below 0 or above 2^b - 1, and what it returns is below 2^b
C23_DeltaRange ==
    (result.type = "read_pos" /\ result.write.op = "delta" /\ result.old_value.some)
        => LET f == result.write
               sum == Sum(result.old_value.value, TwosComplement(f.v, f.width))
               outside == sum.below \/ sum.above \/ ~FitsBits(sum.bits, result.b)
           IN  /\ outside => result.panic
               /\ ~result.panic => FitsBits(result.value, result.b)

\* Properties of the rotation codec

\* C24: decoding the number the encoder returned, the decoder starts from
\* the encoder's triangle and holds the encoder's three corners after every
\* step
C24_SameRefinement ==
    result.type = "from_network" => result.triangles = result.encoded

\* the 2-bit step id of a pass, from the outcomes of its edge tests
StepId(test) ==
    IF ~test.a1 THEN 0 ELSE IF ~test.a2 THEN 1 ELSE IF ~test.a3 THEN 2 ELSE 3

\* for the widths given: the number the encoder returns is below 2^b, its
\* bits 0, 1 and 2 are x < 0, z < 0 and y < 0, the step id of pass k is in
\* bits 1 + 2k and 2 + 2k with both bits below b, and the decoder makes as
\* many passes as the encoder
RotLayout(widths) ==
    /\ (result.type = "to_network" /\ result.b \in widths)
          => /\ result.res \div (2 ^ (result.b - 1)) < 2
             /\ result.res % 2 = (IF result.v.x_neg THEN 1 ELSE 0)
             /\ (result.res \div 2) % 2 = (IF result.v.z_neg THEN 1 ELSE 0)
             /\ (result.res \div 4) % 2 = (IF result.v.y_neg THEN 1 ELSE 0)
             /\ Len(result.triangles) = Passes(result.b) + 1
             /\ \A k \in 1 .. Passes(result.b) :
                   /\ 2 + 2 * k < result.b
                   /\ (result.res \div (2 ^ (1 + 2 * k))) % 4 = StepId(result.v.tests[k])
    /\ (result.type = "from_network" /\ result.b \in widths)
          => Len(result.triangles) = Len(result.encoded)

\* C25 as stated: for every width b in 3..31 the encoder's number is below
\* 2^b, the octant in bits 0..2 and every step id entirely below bit b
C25_AllWidths == RotLayout(3 .. 31)

\* C25 as amended: the same for every odd width b in 3..31
C25_OddWidths == RotLayout({b \in 3 .. 31 : b % 2 = 1})

\* a column of width 31 in octant 7 whose 14 step ids are all 3 was encoded
\* as 2^31 - 1
C25_Witness ==
    /\ result.type = "to_network"
    /\ result.b = 31
    /\ result.res = MaxI32

\* a column of width 25 was decoded in 11 passes
C25_WitnessDecoded ==
    /\ result.type = "from_network"
    /\ result.b = 25
    /\ Len(result.triangles) = 12

\* Properties of get_position

\* twice the real number an argument of get_position is, the numbers beyond
\* 2^24 being kept in their order only
Twice(x) ==
    LET n == CASE x.class = "halves" -> x.h
               [] x.class = "subnormal" -> 1
               [] x.class = "below 2^31" -> 2 ^ 26
               [] x.class = "2^31" -> 2 ^ 27
               [] x.class = "largest" -> 2 ^ 28
               [] x.class = "infinity" -> 2 ^ 29
    IN  IF x.class = "halves" THEN (IF x.sign = 1 THEN 0 - 2 * n ELSE 2 * n)
        ELSE IF x.class = "subnormal" THEN (IF x.sign = 1 THEN 0 - 1 ELSE 1)
        ELSE IF x.sign = 1 THEN 0 - n ELSE n

\* C26: for bits in {13, 16, 17} get_position(bits, v) is the integer part
\* of v clamped to 0 .. 2^bits - 1: 0 for a negative v, 2^bits - 1 for a v
\* above that, and not smaller for a larger v; every field fits its width
C26_GetPosition ==
    result.type = "get_position"
        => LET x == result.x
               max == 2 ^ result.bits - 1
           IN  /\ result.bits \in {13, 16, 17}
               /\ result.value \in 0 .. max
               /\ x.class # "NaN"
                     => /\ Twice(x) < 0 => result.value = 0
                        /\ Twice(x) > 4 * max => result.value = max
                        /\ (x.class = "halves" /\ x.sign = 0)
                              => result.value = Min(x.h \div 2, max)
                        /\ (result.before.bits = result.bits
                               /\ result.before.x.class # "NaN"
                               /\ Twice(result.before.x) <= Twice(x))
                              => result.before.value <= result.value

\* stick_pos was filled from 8191.5 (8191, the limit of 13 bits) after it
\* was filled from 8190.5 (8190)
C26_Witness ==
    /\ result.type = "get_position"
    /\ result.field = "stick_pos"
    /\ result.x.class = "halves" /\ result.x.sign = 0 /\ result.x.h = 16383
    /\ result.value = 8191
    /\ result.before.bits = 13
    /\ result.before.x.h = 16381 /\ result.before.x.sign = 0
    /\ result.before.value = 8190

\* pos was filled from infinity
C26_WitnessInfinity ==
    /\ result.type = "get_position"
    /\ result.field = "pos"
    /\ result.x.class = "infinity" /\ result.x.sign = 0
    /\ result.value = 131071

\* Properties of a message read back

\* the message of the example was written by a fresh writer and read back
\* whole: write_bits(3, 5), write_bits(5, 17), write_u32_aligned(0xDEADBEEF)
ExampleReadBack ==
    /\ result.type = "message"
    /\ Len(written) = 3
    /\ [k \in 1 .. 3 |-> [op |-> written[k].op, n |-> written[k].n, v |-> written[k].v]]
          = << [op |-> "write_bits", n |-> 3, v |-> U32Of(5)],
               [op |-> "write_bits", n |-> 5, v |-> U32Of(17)],
               [op |-> "write_u32_aligned", n |-> 4, v |-> DeadBeef] >>
    /\ Len(result.reads) = 3

\* the three reads of the example returned 5, 17 and 0xDEADBEEF
ExampleValues ==
    /\ result.reads[1].value = U32Of(5)
    /\ result.reads[2].value = U32Of(17)
    /\ result.reads[3].value = DeadBeef

\* C27 as stated: the reads return 5, 17 and 0xDEADBEEF and the reader ends
\* at bit offset 0, at position 8 (counted in bytes or in bits)
C27_EndsAtEight ==
    ExampleReadBack
        => /\ ExampleValues
           /\ rd.bit_pos = 0
           /\ (rd.pos = 8 \/ BitsBefore(rd) = 8)

\* C27 as amended: the reads return 5, 17 and 0xDEADBEEF; the reader is at
\* bit 8 (byte 1, bit offset 0) after the two read_bits and ends at byte 5,
\* bit offset 0
C27_EndsAtFive ==
    ExampleReadBack
        => /\ ExampleValues
           /\ result.reads[1].end = [pos |-> 0, bit_pos |-> 3]
           /\ result.reads[2].end = [pos |-> 1, bit_pos |-> 0]
           /\ result.reads[3].end = [pos |-> 5, bit_pos |-> 0]
           /\ rd = [pos |-> 5, bit_pos |-> 0]
           /\ Cursor(wr) = [pos |-> 5, bit_pos |-> 0]

\* the example was read back from a buffer that held 0xFF in every byte
C27_Witness ==
    /\ ExampleReadBack
    /\ wr.buf[5] = 255
    /\ wr.buf[0] = 141
    /\ ExampleValues

\* Properties of the event loop of after_tick

\* the step handles one event of the given type
Handles(type) ==
    /\ pc = "events"
    /\ pc' = "events"
    /\ last'.type = type

\* C28: handling PuckEnteredNet in status Game leaves in_zone and round as
\* they were right before the event, whatever earlier events of the tick did
\* to them (the game may end with the goal)
C28_GoalKeepsZoneAndRound ==
    [][(Handles("PuckEnteredNet") /\ status.tag = "Game" /\ status'.tag = "Game")
          => /\ status'.in_zone = status.in_zone
             /\ status'.round = status.round]_vars

\* C29: at the end of every tick game.game_over is true exactly when the
\* status is GameOver
C29_GameOverFlag ==
    pc = "before_tick" => (game.game_over <=> status.tag = "GameOver")

\* C30: while goal_scored is true neither score changes, in the tick of the
\* goal and in the ticks of the goal break
C30_OneGoalPerBreak ==
    [][(status.tag = "Game" /\ status.goal_scored)
          => /\ game'.red_score = game.red_score
             /\ game'.blue_score = game.blue_score]_vars

----------------------------------------------------------------------------
\* C31: whenever the status is GameOver the two scores differ, so a tied game
\* is never ended. In a running game the quota max(attempts, Red's attempts
\* taken) is never below the attempts either team has taken, so neither
\* subtraction in check_ending goes below zero, and once all configured
\* attempts are used with a tie the game is not decided: an event that runs
\* check_ending on the tie, or the expiry of the attempt, leaves the status
\* Game.
TiedGame ==
    status.tag = "Game" /\ game.red_score = game.blue_score

RedAttemptsTaken(st) == st.round + (IF st.in_zone = "Blue" THEN 1 ELSE 0)

C31_TiedGameNeverEnded ==
    /\ [](status.tag = "GameOver" => game.red_score # game.blue_score)
    /\ [](status.tag = "Game" =>
            /\ Max(attempts, RedAttemptsTaken(status))
                   >= RedAttemptsTaken(status)
            /\ Max(attempts, RedAttemptsTaken(status)) >= status.round
            /\ (game.red_score = game.blue_score =>
                   ~Decided(status, game)))
    /\ [][(TiedGame /\ game'.red_score = game'.blue_score
             /\ (Handles("PuckPassedGoalLine")
                   \/ Handles("PuckLeftOffensiveZone")
                   \/ (pc = "events" /\ pc' = "before_tick"
                         /\ last'.type = "expiry")))
           => status'.tag = "Game"]_vars

\* all configured attempts are used, the game is tied and the attempt is
\* Blue's, so the quota has grown past the configured attempts, and
\* check_ending has just run on the tie
C31_Witness ==
    /\ TiedGame
    /\ attempts >= 1
    /\ status.round >= attempts
    /\ status.in_zone = "Blue"
    /\ RedAttemptsTaken(status) > attempts
    /\ last.type = "PuckPassedGoalLine"

\* a game that went into the tie-breaker rounds has ended with a leader
C31_WitnessEnded ==
    /\ status.tag = "GameOver"
    /\ game.red_score # game.blue_score
    /\ local.round >= attempts
    /\ last.type = "PuckEnteredNet"

----------------------------------------------------------------------------
\* C32: the tick that removes a player's skater because the spectate key is
\* held sets team_switch_timer to 500, whatever join keys are held with it;
\* on each of the next 499 ticks the player has no skater and the timer is
\* 500 minus the ticks since. Every other tick lowers the timer by 1 (not
\* below 0). A player gets a skater only on a tick that finds them without
\* one, with the timer 0 after the decrement and a join key held, on Red
\* when join-red is held and on Blue otherwise; a player with a skater who
\* does not spectate keeps it as it is.
TeamOf(objects, p) == objects[skater_slot(objects, p)].team

C32_TeamSwitchTimer ==
    /\ [](elapsed \in 0 .. (SwitchTime - 1) =>
            /\ ~has_skater(game.objects, 0)
            /\ players[0].team_switch_timer = SwitchTime - elapsed)
    /\ [][(pc = "before_tick" /\ pc' = "after_tick") =>
            LET k == last'.keys
                had == has_skater(game.objects, 0)
                has == has_skater(game'.objects, 0)
                timer == players[0].team_switch_timer
                timer_after == players'[0].team_switch_timer
            IN  /\ (had /\ spectate(k)) => (~has /\ timer_after = SwitchTime)
                /\ ~(had /\ spectate(k)) =>
                       timer_after = (IF timer = 0 THEN 0 ELSE timer - 1)
                /\ (~had /\ has) =>
                       /\ timer_after = 0
                       /\ join_red(k) \/ join_blue(k)
                       /\ TeamOf(game'.objects, 0) =
                             (IF join_red(k) THEN "Red" ELSE "Blue")
                /\ (had /\ ~spectate(k)) =>
                       /\ has
                       /\ TeamOf(game'.objects, 0) = TeamOf(game.objects, 0)
          ]_vars

\* the 500th tick after the removal puts the player, who holds all three
\* keys, on Red
C32_Witness ==
    /\ pc = "after_tick"
    /\ elapsed = SwitchTime
    /\ last.keys = KeyJoinRed + KeyJoinBlue + KeySpectate
    /\ has_skater(game.objects, 0)
    /\ TeamOf(game.objects, 0) = "Red"
    /\ players[0].team_switch_timer = 0

\* the player is removed while holding the spectate key and both join keys
C32_WitnessRemoved ==
    /\ pc = "after_tick"
    /\ elapsed = 0
    /\ last.keys = KeyJoinRed + KeyJoinBlue + KeySpectate
    /\ ~has_skater(game.objects, 0)
    /\ players[0].team_switch_timer = SwitchTime

\* the 499th tick after the removal: join keys held, the timer reaches 1 and
\* the player stays without a skater
C32_WitnessLastWait ==
    /\ pc = "after_tick"
    /\ elapsed = SwitchTime - 1
    /\ join_blue(last.keys)
    /\ ~has_skater(game.objects, 0)
    /\ players[0].team_switch_timer = 1

----------------------------------------------------------------------------
\* C33: the slice a writer hands out is the slice the same writes give over
\* any other prior contents of the buffer. While the writer writes, the bits
\* of the current byte at and above the cursor are 0, the bits an aligned
\* write skipped in the byte it started in are 0, and a write leaves every
\* bit before its starting cursor as it was.
apply_write(w, f) ==
    CASE f.op = "write_bits" -> write_bits(w, f.n, f.v)
      [] f.op = "write_pos" -> write_pos(w, f.n, f.v)
      [] f.op = "write_byte_aligned" -> write_byte_aligned(w, f.v)
      [] f.op = "write_bytes_aligned" -> write_bytes_aligned(w, f.v)
      [] f.op = "write_bytes_aligned_padded" -> write_bytes_aligned_padded(w, f.n, f.v)
      [] f.op = "write_u32_aligned" -> write_u32_aligned(w, f.v)
      [] f.op = "write_f32_aligned" -> write_f32_aligned(w, f.v)

RECURSIVE replay(_, _)
replay(w, ops) ==
    IF ops = <<>> THEN w ELSE replay(apply_write(w, Head(ops)), Tail(ops))

BitWrites == {"write_bits", "write_pos"}

\* an aligned write that started inside a byte
SkippedBits(f) == f.op \notin BitWrites /\ f.at.bit_pos > 0

C33_SliceFromWritesOnly ==
    /\ [](pc = "done" =>
            \A prior \in PriorContents :
                get_slice(replay(NewWriter(prior), written)) = result.bytes)
    /\ [](pc = "write" =>
            /\ wr.bit_pos > 0 => wr.buf[wr.pos] < 2 ^ wr.bit_pos
            /\ \A k \in 1 .. Len(written) :
                  SkippedBits(written[k]) =>
                      wr.buf[written[k].at.pos] < 2 ^ written[k].at.bit_pos)
    /\ [][(pc = "write" /\ pc' = "write") =>
            /\ \A i \in 0 .. (wr.pos - 1) : wr'.buf[i] = wr.buf[i]
            /\ wr.bit_pos > 0 =>
                  wr'.buf[wr.pos] % (2 ^ wr.bit_pos) = wr.buf[wr.pos] % (2 ^ wr.bit_pos)
          ]_vars

\* the byte past the slice still holds 0xFF, the slice ends inside a byte,
\* and one of the writes was an aligned write that skipped bits
C33_Witness ==
    /\ pc = "done"
    /\ Len(written) = MaxOps
    /\ wr.bit_pos > 0
    /\ wr.buf[BufLen - 1] = 255
    /\ \E k \in 1 .. Len(written) : SkippedBits(written[k])

\* over prior contents that differ from byte to byte, a field with all 32
\* bits of the value set was written in 3 bits inside a byte already begun
C33_WitnessContinued ==
    /\ pc = "done"
    /\ wr.buf[BufLen - 1] = (37 * (BufLen - 1) + 90) % 256
    /\ \E k \in 1 .. Len(written) :
          /\ written[k].op = "write_bits"
          /\ written[k].n = 3
          /\ written[k].v = U32Ones(WordBits)
          /\ written[k].at.bit_pos > 0

====
